---- MODULE Spec2Model ----
(***************************************************************************)
(* Puppyteer: page jobs sharing one browser, a pool of reusable tabs and   *)
(* one active-page mutex.  The pool manager (class Puppyteer) and the page *)
(* session (class PuppyteerPage) are modelled at the granularity of the    *)
(* JavaScript event loop: one action is the code that runs between two     *)
(* awaits of one job.                                                      *)
(***************************************************************************)
EXTENDS Integers, Sequences, FiniteSets, TLC

(* ----------------------------- bounds ---------------------------------- *)
NJobs == 2          \* page jobs added with addPageTask
MaxOps == 1         \* session operations one execution function performs
MaxDepth == 1       \* nesting of user functions inside the execution function
MaxBrowsers == 2    \* browsers the driver launches
MaxCloses == 1      \* calls of close()
MaxStack == 3       \* depth of a status stack driven by direct status calls
MaxActs == 1        \* clickOnElement / typeInElement / pressEscape calls of one job
MaxScrolls == 1     \* times scrollToElement scrolls again because the page moved
MaxMatches == 2     \* handles page.$$ returns for a selector
MaxLines == 2       \* lines of a text given to typeInElement
MaxAncestors == 1   \* elements between an element and the root of its document

Jobs == 1..NJobs
None == 0
NoTab == [b |-> 0, n |-> 0]
SeedCounts == {0, 1}        \* tabs a fresh browser reports from browser.pages()
WaitModes == {"foreground", "background"}
Msgs == {"A", "B", ""}      \* status messages passed by user code
PollTimeout == 1000         \* options.timeoutMs of waitForAllSelectorsWithInner
PollInterval == 250         \* the sleep between two polling passes
Delays == {0, 500}          \* ms acquireActivePage() takes (queueing, bringToFront)

VARIABLES
    sess,               \* per job: the job's position and its PuppyteerPage fields
    activePageMutex,    \* Puppyteer.activePageMutex
    browserMutex,       \* Puppyteer.browserMutex
    browser,            \* Puppyteer._browser (None = null)
    availablePages,     \* Puppyteer.availablePages
    headless,           \* Puppyteer.headless
    driver,             \* the driver's side: browsers launched, tabs made, browsers closed
    closer,             \* the caller of close(): its position and number of calls
    hist                \* history: launch calls, failed create() calls

vars == <<sess, activePageMutex, browserMutex, browser, availablePages,
          headless, driver, closer, hist>>

(* ------------------------- async-mutex Mutex --------------------------- *)
\* A mutex is its holder (None = unlocked), the FIFO queue of pending
\* acquire() calls and the set of callers whose acquire() promise has been
\* resolved but whose continuation has not run yet.
FreeMutex == [holder |-> None, queue |-> <<>>, granted |-> {}]

MutexAcquire(m, j) ==
    IF m.holder = None
    THEN [m EXCEPT !.holder = j, !.granted = @ \cup {j}]
    ELSE [m EXCEPT !.queue = Append(@, j)]

\* release(): nothing when unlocked; otherwise the lock is given up by whoever
\* holds it and passes to the first pending acquire(), if any.
MutexRelease(m) ==
    IF m.holder = None THEN m
    ELSE IF m.queue = <<>> THEN [m EXCEPT !.holder = None]
    ELSE [holder |-> Head(m.queue), queue |-> Tail(m.queue),
          granted |-> m.granted \cup {Head(m.queue)}]

MutexResume(m, j) == [m EXCEPT !.granted = @ \ {j}]

(* --------------------------- status stack ------------------------------ *)
Top(stack) == IF stack = <<>> THEN "" ELSE stack[Len(stack)]

\* A statusPush that publishes the bare message instead of the stored entry
StatusPushPublishesMsg(s, msg) ==
    LET prev == Top(s.statusStack)
        full == IF prev # "" THEN prev \o " -- " \o msg ELSE msg
    IN  [s EXCEPT !.fStatus = msg, !.statusStack = Append(@, full)]

\* statusPush(msg)
StatusPushS(s, msg) ==
    LET prev == Top(s.statusStack)
        full == IF prev # "" THEN prev \o " -- " \o msg ELSE msg
    IN  [s EXCEPT !.fStatus = full, !.statusStack = Append(@, full)]

\* A statusPop that removes the entry without publishing the one below
StatusPopSilent(s) ==
    LET rest == IF s.statusStack = <<>> THEN <<>>
                ELSE SubSeq(s.statusStack, 1, Len(s.statusStack) - 1)
    IN  [s EXCEPT !.statusStack = rest]

\* statusPop()
StatusPopS(s) ==
    LET rest == IF s.statusStack = <<>> THEN <<>>
                ELSE SubSeq(s.statusStack, 1, Len(s.statusStack) - 1)
    IN  [s EXCEPT !.statusStack = rest, !.fStatus = Top(rest)]

\* A status that always pushes
StatusAlwaysPush(s, msg) == StatusPushS(s, msg)

\* status(msg)
StatusS(s, msg) ==
    IF s.statusStack = <<>> THEN StatusPushS(s, msg)
    ELSE [s EXCEPT !.fStatus = msg, !.statusStack[Len(s.statusStack)] = msg]

(* ------------------------------ frames --------------------------------- *)
\* The calls of a job that are suspended at an await, outermost first:
\*   k = "GOTO"  goto() called by addPageTask
\*   k = "FG"    runInForeground(fn); rel: it acquired, so it releases at its end
\*   k = "BG"    runInBackground(fn); rel: it released, so it re-acquires at its end
\*   k = "WFS"   the try block of waitForSelector
\* fn is the function the call runs; held records whether the session held the
\* mutex when the call was made.
Frame(k, rel, fn, held) == [k |-> k, rel |-> rel, fn |-> fn, held |-> held]

TopFrame(s) == s.frames[Len(s.frames)]
Pop(s) == [s EXCEPT !.frames = SubSeq(@, 1, Len(@) - 1)]
Push(s, f) == [s EXCEPT !.frames = Append(@, f)]
Depth(s) == Cardinality({i \in 1..Len(s.frames) : s.frames[i].fn = "user"})

\* depth: the depth of the status stack when the execution function made
\* its latest call of a session operation.
\* pt: prevPt of the scrollToElement call under way, then the point it
\* returned; at: the centre of the element in window coordinates, as
\* getElementCenter would read it now.
NoPt == [x |-> 0, y |-> 0]

\* The window, and the centres an element is read at (window coordinates)
View == [innerWidth |-> 100, innerHeight |-> 100]
Points == {[x |-> 50, y |-> 50], [x |-> 58, y |-> 50], [x |-> 58, y |-> 80]}

NewSession ==
    [pc |-> "idle", lb |-> None, tab |-> NoTab, frames |-> <<>>,
     statusStack |-> <<>>, fStatus |-> "", inForeground |-> FALSE,
     pend |-> "", arg |-> "", ops |-> 0, err |-> FALSE, acquired |-> FALSE,
     call |-> [op |-> "", msg |-> ""],
     ret |-> "", errMsg |-> "", n |-> 0, scrolls |-> 0, acts |-> 0,
     nm |-> 0, checks |-> <<>>, keys |-> <<>>, lines |-> <<>>, pt |-> NoPt, at |-> NoPt, depth |-> 0,
     rects |-> <<>>, hit |-> 0,
     dom |-> [el |-> FALSE, box |-> [top |-> 0, left |-> 0, width |-> 0, height |-> 0],
              hit |-> "none", chain |-> <<>>]]

\* keys: what the typeInElement call under way has sent to page.keyboard, in
\* order: a string typed, ShiftEnter (Enter pressed with Shift down) or Enter.
\* lines: the lines of its text that it has come to.
ShiftEnter == "<Shift+Enter>"
Enter == "<Enter>"
LineSet == {"a ", " "}

\* String.trimEnd() on the lines of LineSet
TrimEnd(line) ==
    CASE line = "a " -> "a"
      [] line = " "  -> ""
      [] OTHER       -> line

\* The text that split('\n') takes apart into these lines
RECURSIVE Join(_)
Join(ls) == IF Len(ls) = 1 THEN ls[1] ELSE ls[1] \o "\n" \o Join(Tail(ls))

(* ------------------------------- Init ---------------------------------- *)
Init ==
    /\ sess = [j \in Jobs |-> NewSession]
    /\ activePageMutex = FreeMutex
    /\ browserMutex = FreeMutex
    /\ browser = None
    /\ availablePages = <<>>
    /\ headless = FALSE
    /\ driver = [launched |-> 0, pages |-> [b \in 1..MaxBrowsers |-> 0], closed |-> {}]
    /\ closer = [pc |-> "idle", calls |-> 0]
    /\ hist = [launchCalls |-> 0, createFailures |-> 0]

(* ------------------ PuppyteerPage: foreground / background ------------- *)
\* A session s together with the active-page mutex m: what the session's
\* methods read and write.
X(s, m) == [s |-> s, m |-> m]
Holds(x, j) == x.m.holder = j

WaitMsg(waitIn) == "Waiting 250ms in " \o waitIn
\* The waits the session's own methods make: yield() is wait(0, "background"),
\* clickOnElement / typeInElement end with wait(100, waitIn), typeInElement
\* calls wait(200) after focusing.
WaitFns == {"wait", "yield", "wait100", "wait200"}
WaitMsgFor(fn, waitIn) ==
    CASE fn = "yield"   -> "Waiting 0ms in " \o waitIn
      [] fn = "wait100" -> "Waiting 100ms in " \o waitIn
      [] fn = "wait200" -> "Waiting 200ms in " \o waitIn
      [] OTHER          -> WaitMsg(waitIn)
SelErr == "Couldn't find required selector: #sel"
MoveMsg == "Moving mouse to 5,5"
ClickMsg == "Clicking on 5,5"
ScrollMsg == "Scrolling to 5,5"
FocusMsg == "Focusing"
TypeMsg == "Typing 3 characters"
NavMsg == "Waiting up to 20000ms for navigation"
SelMsg == "Waiting for selector #sel"
GotoMsg == "Navigating to U"
AcquireMsg == "Waiting for active page"

\* releaseActivePage()
ReleaseActivePage(x) ==
    X([x.s EXCEPT !.inForeground = FALSE], MutexRelease(x.m))

\* acquireActivePage() up to its first await; pend is what the caller does
\* once it has returned ("exec"/"user": call that function; "bgtail": return
\* from runInBackground).
AcquireActivePageCall(x, j, pend) ==
    X([StatusPushS(x.s, AcquireMsg) EXCEPT !.pc = "acquire", !.pend = pend],
      MutexAcquire(x.m, j))

\* A runInForeground that calls fn without the token
RunInForegroundUnguarded(x, j, fn) ==
    X([x.s EXCEPT !.frames = Append(@, Frame("FG", FALSE, fn, x.m.holder = j)),
                  !.pc = "run"], x.m)

\* runInForeground(fn) up to its first await
RunInForegroundCall(x, j, fn) ==
    IF x.s.inForeground
    THEN X([Push(x.s, Frame("FG", FALSE, fn, Holds(x, j))) EXCEPT !.pc = "run"], x.m)
    ELSE AcquireActivePageCall(x, j, fn)

\* The first part of the function a runInBackground call runs, or of the
\* closure f of wait / waitForNavigation called directly.
StartFn(x, fn, waitIn) ==
    CASE fn \in WaitFns -> X([StatusPushS(x.s, WaitMsgFor(fn, waitIn)) EXCEPT !.pc = "timer"], x.m)
      [] fn = "nav"    -> X([StatusPushS(x.s, NavMsg) EXCEPT !.pc = "nav"], x.m)
      [] fn = "native" -> X([x.s EXCEPT !.pc = "native"], x.m)
      [] OTHER         -> X([x.s EXCEPT !.pc = "run"], x.m)

\* runInBackground(fn) up to its first await
RunInBackgroundCall(x, j, fn) ==
    LET y == IF x.s.inForeground THEN ReleaseActivePage(x) ELSE x
        f == Frame("BG", x.s.inForeground, fn, Holds(x, j))
    IN  StartFn(X(Push(y.s, f), y.m), fn, "background")

\* The methods of the session that are suspended in a call of another method
\* of it are frames too: k = "OP", fn the method and the place in it
\*   "orfail"       waitForSelectorOrFail, in waitForSelector
\*   "has"          hasAnySelector, in waitForSelector
\*   "poll"         waitForAllSelectorsWithInner, in wait(250, waitIn)
\*   "scroll"       scrollToElement, in wait(250, "foreground")
\*   "click.scroll" clickOnElement, in scrollToElement
\*   "click.after"  clickOnElement, in its last wait
\*   "type.scroll"  typeInElement, in scrollToElement
\*   "type.focus"   typeInElement, in wait(200)
\*   "type.after"   typeInElement, in its last wait
OpFrame(fn) == Frame("OP", FALSE, fn, FALSE)
InOp(s, fn) == \E i \in 1..Len(s.frames) : s.frames[i] = OpFrame(fn)

\* A polling loop that gives up after its first sleep
PollExpiredAtOnce(n) == TRUE

\* waitForAllSelectorsWithInner: the loop condition, negated
PollExpired(n) == ~(n < PollTimeout)

\* A waitForSelector that returns what the native wait returned
NeverRecheck(f, ret) == FALSE

\* waitForSelector after its try block: the visibility filter is run again
\* when the native wait gave an element and options.visible is set.
MustRecheck(f, ret) == f.fn = "wfs.visible" /\ ret = "el"

\* Control comes back, without an error, to the code that made the innermost
\* suspended call.
RECURSIVE Resume(_, _)
Resume(x, j) ==
    IF x.s.frames = <<>>
    THEN X([x.s EXCEPT !.pc = "finally"], x.m)      \* addPageTask: the try block is over
    ELSE LET f == TopFrame(x.s) IN
         CASE f.k = "GOTO" -> RunInForegroundCall(X(Pop(x.s), x.m), j, "exec")
           [] f.k = "WFS" /\ MustRecheck(f, x.s.ret) ->
                X([Pop(StatusPopS(x.s)) EXCEPT !.pc = "immAll", !.arg = "recheck", !.ret = "",
                                                !.nm = 0, !.checks = <<>>], x.m)
           [] f.k = "WFS" /\ ~MustRecheck(f, x.s.ret) ->
                Resume(X(Pop(StatusPopS(x.s)), x.m), j)
           [] f = OpFrame("orfail") ->
                IF x.s.ret = "none"
                THEN X([Pop(x.s) EXCEPT !.pc = "throw", !.errMsg = SelErr], x.m)
                ELSE Resume(X(Pop(x.s), x.m), j)
           [] f = OpFrame("has") ->
                Resume(X([Pop(x.s) EXCEPT !.ret = IF x.s.ret = "none" THEN "false" ELSE "true"],
                         x.m), j)
           [] f = OpFrame("poll") ->
                IF PollExpired(x.s.n)
                THEN Resume(X([Pop(x.s) EXCEPT !.ret = "empty"], x.m), j)
                ELSE X([x.s EXCEPT !.pc = "pollQuery"], x.m)
           [] f = OpFrame("scroll") -> X([Pop(x.s) EXCEPT !.pc = "scrCenter2"], x.m)
           [] f = OpFrame("click.scroll") ->
                X([StatusPushS(Pop(x.s), MoveMsg) EXCEPT !.pc = "mouseMove", !.scrolls = 0,
                                                          !.pt = NoPt, !.at = NoPt], x.m)
           [] f = OpFrame("type.scroll") ->
                X([StatusPushS(Pop(x.s), FocusMsg) EXCEPT !.pc = "focus", !.scrolls = 0,
                                                           !.pt = NoPt, !.at = NoPt], x.m)
           [] f = OpFrame("type.focus") -> X([Pop(x.s) EXCEPT !.pc = "kbStart"], x.m)
           [] f \in {OpFrame("click.after"), OpFrame("type.after")} ->
                Resume(X(Pop(x.s), x.m), j)
           [] OTHER        -> X([x.s EXCEPT !.pc = "run"], x.m)

\* The function run by the innermost runInForeground / runInBackground call
\* has returned: the rest of that call.
ReturnFrom(x, j) ==
    LET f == TopFrame(x.s) IN
    CASE f.k = "FG" /\ f.rel     -> LET y == ReleaseActivePage(x) IN Resume(X(Pop(y.s), y.m), j)
      [] f.k = "BG" /\ f.rel     -> AcquireActivePageCall(x, j, "bgtail")
      [] OTHER                   -> Resume(X(Pop(x.s), x.m), j)

\* The closure f of wait / waitForNavigation, or the native wait, is over.
FnDone(x, j) ==
    IF x.s.frames # <<>> /\ TopFrame(x.s).k = "BG"
       /\ TopFrame(x.s).fn \in WaitFns \cup {"nav", "native"}
    THEN ReturnFrom(x, j)
    ELSE Resume(x, j)

\* An unwinding in which waitForSelector has no catch
UnwindingNoCatch(x, j) ==
    IF x.s.frames = <<>>
    THEN X([x.s EXCEPT !.pc = "finally", !.err = TRUE], x.m)
    ELSE LET f == TopFrame(x.s) IN
         CASE f.k = "FG" /\ f.rel -> LET y == ReleaseActivePage(x) IN X(Pop(y.s), y.m)
           [] f.k = "WFS"         -> X(Pop(StatusPopS(x.s)), x.m)
           [] OTHER               -> X(Pop(x.s), x.m)

\* An error leaves the innermost suspended call.
Unwinding(x, j) ==
    IF x.s.frames = <<>>
    THEN X([x.s EXCEPT !.pc = "finally", !.err = TRUE], x.m)    \* catch, rethrow
    ELSE LET f == TopFrame(x.s) IN
         CASE f.k = "FG" /\ f.rel -> LET y == ReleaseActivePage(x) IN X(Pop(y.s), y.m)
           [] f.k = "WFS"         -> Resume(X(Pop(StatusPopS([x.s EXCEPT !.ret = "none"])), x.m), j)
           [] OTHER               -> X(Pop(x.s), x.m)

(* --------------------------- Puppyteer: pool --------------------------- *)
Last(q) == q[Len(q)]
Front(q) == SubSeq(q, 1, Len(q) - 1)

\* A pop that leaves the tab in the array
PoolPeek(pool) ==
    IF pool = <<>> THEN [page |-> NoTab, rest |-> <<>>]
    ELSE [page |-> pool[Len(pool)], rest |-> pool]

\* Array.pop(): the last tab (NoTab when there is none) and the rest
PoolPop(pool) ==
    IF pool = <<>> THEN [page |-> NoTab, rest |-> <<>>]
    ELSE [page |-> Last(pool), rest |-> Front(pool)]

\* acceptClosedPage(page)
AcceptClosedPage(pool, page) == Append(pool, page)

SetSess(j, s) == sess' = [sess EXCEPT ![j] = s]
Apply(j, y) == SetSess(j, y.s) /\ activePageMutex' = y.m
Me(j) == X(sess[j], activePageMutex)

\* A create() without the second check of _browser
BrowserNotRechecked(b) == FALSE

\* create() when the mutex callback starts: the second check of _browser
BrowserRecorded(b) == b # None

\* addPageTask's callback starts: getPage() up to its first await.
GetPage(j) ==
    /\ sess[j].pc = "idle"
    /\ LET p == PoolPop(availablePages) IN
       IF p.page # NoTab
       THEN /\ availablePages' = p.rest
            /\ SetSess(j, [sess[j] EXCEPT !.pc = "gotPage", !.tab = p.page])
            /\ UNCHANGED browserMutex
       ELSE /\ UNCHANGED availablePages
            /\ IF browser # None                        \* create(): already there
               THEN /\ SetSess(j, [sess[j] EXCEPT !.pc = "created", !.lb = browser])
                    /\ UNCHANGED browserMutex
               ELSE /\ SetSess(j, [sess[j] EXCEPT !.pc = "crMutex"])
                    /\ browserMutex' = MutexAcquire(browserMutex, j)
    /\ UNCHANGED <<activePageMutex, browser, headless, driver, closer, hist>>

\* create(): the callback of browserMutex.runExclusive starts.
CreateEnter(j) ==
    /\ sess[j].pc = "crMutex"
    /\ j \in browserMutex.granted
    /\ IF BrowserRecorded(browser)
       THEN /\ SetSess(j, [sess[j] EXCEPT !.pc = "created", !.lb = browser])
            /\ browserMutex' = MutexRelease(MutexResume(browserMutex, j))
            /\ UNCHANGED hist
       ELSE /\ SetSess(j, [sess[j] EXCEPT !.pc = "crLaunch"])
            /\ browserMutex' = MutexResume(browserMutex, j)
            /\ hist' = [hist EXCEPT !.launchCalls = @ + 1]
    /\ UNCHANGED <<activePageMutex, browser, availablePages, headless, driver, closer>>

\* A create() whose failure leaves the browser mutex locked
CreateFailsKeepsMutex(j) ==
    /\ SetSess(j, [sess[j] EXCEPT !.pc = "failed", !.err = TRUE])
    /\ browserMutex' = browserMutex
    /\ hist' = [hist EXCEPT !.createFailures = @ + 1]

\* create() fails: runExclusive releases the mutex, getPage() and the job fail.
CreateFails(j) ==
    /\ SetSess(j, [sess[j] EXCEPT !.pc = "failed", !.err = TRUE])
    /\ browserMutex' = MutexRelease(browserMutex)
    /\ hist' = [hist EXCEPT !.createFailures = @ + 1]

\* launch() settles.
LaunchDone(j) ==
    /\ sess[j].pc = "crLaunch"
    /\ \E ok \in BOOLEAN :
        IF ok
        THEN /\ driver.launched < MaxBrowsers
             /\ driver' = [driver EXCEPT !.launched = @ + 1]
             /\ SetSess(j, [sess[j] EXCEPT !.pc = "crPages", !.lb = driver.launched + 1])
             /\ UNCHANGED <<browserMutex, hist>>
        ELSE CreateFails(j) /\ UNCHANGED driver
    /\ UNCHANGED <<activePageMutex, browser, availablePages, headless, closer>>

\* browser.pages() settles: the pool is seeded, then the viewport is set or
\* the browser is recorded.
PagesDone(j) ==
    /\ sess[j].pc = "crPages"
    /\ \E ok \in BOOLEAN :
        IF ok
        THEN \E k \in SeedCounts :
             LET b == sess[j].lb
                 pool == availablePages \o [i \in 1..k |-> [b |-> b, n |-> i]]
             IN  /\ availablePages' = pool
                 /\ driver' = [driver EXCEPT !.pages[b] = k]
                 /\ IF pool # <<>> /\ ~headless
                    THEN /\ SetSess(j, [sess[j] EXCEPT !.pc = "crViewport"])
                         /\ UNCHANGED <<browser, browserMutex>>
                    ELSE /\ browser' = b
                         /\ SetSess(j, [sess[j] EXCEPT !.pc = "created"])
                         /\ browserMutex' = MutexRelease(browserMutex)
                 /\ UNCHANGED hist
        ELSE CreateFails(j) /\ UNCHANGED <<availablePages, driver, browser>>
    /\ UNCHANGED <<activePageMutex, headless, closer>>

\* page.setViewport() settles.
ViewportDone(j) ==
    /\ sess[j].pc = "crViewport"
    /\ \E ok \in BOOLEAN :
        IF ok
        THEN /\ browser' = sess[j].lb
             /\ SetSess(j, [sess[j] EXCEPT !.pc = "created"])
             /\ browserMutex' = MutexRelease(browserMutex)
             /\ UNCHANGED hist
        ELSE CreateFails(j) /\ UNCHANGED browser
    /\ UNCHANGED <<activePageMutex, availablePages, headless, driver, closer>>

\* getPage() after `await this.create()`.
AfterCreate(j) ==
    /\ sess[j].pc = "created"
    /\ LET p == PoolPop(availablePages) IN
       IF p.page # NoTab
       THEN /\ availablePages' = p.rest
            /\ SetSess(j, [sess[j] EXCEPT !.pc = "gotPage", !.tab = p.page])
       ELSE /\ UNCHANGED availablePages
            /\ SetSess(j, [sess[j] EXCEPT !.pc = "newPage"])
    /\ UNCHANGED <<activePageMutex, browserMutex, browser, headless, driver, closer, hist>>

\* browser.newPage() settles (it fails on a closed browser).
NewPageDone(j) ==
    /\ sess[j].pc = "newPage"
    /\ \E ok \in BOOLEAN :
        LET b == sess[j].lb IN
        IF ok
        THEN /\ b \notin driver.closed
             /\ driver' = [driver EXCEPT !.pages[b] = @ + 1]
             /\ SetSess(j, [sess[j] EXCEPT !.pc = "gotPage",
                                           !.tab = [b |-> b, n |-> driver.pages[b] + 1]])
        ELSE /\ SetSess(j, [sess[j] EXCEPT !.pc = "failed", !.err = TRUE])
             /\ UNCHANGED driver
    /\ UNCHANGED <<activePageMutex, browserMutex, browser, availablePages, headless, closer, hist>>

\* addPageTask's try block starts: goto(config.url) when a url is configured,
\* then runInForeground(executionFunction).
StartTry(j) ==
    /\ sess[j].pc = "gotPage"
    /\ \E url \in BOOLEAN :
        IF url
        THEN Apply(j, X([Push(StatusS(sess[j], GotoMsg), Frame("GOTO", FALSE, "goto", FALSE))
                            EXCEPT !.pc = "goto"], activePageMutex))
        ELSE Apply(j, RunInForegroundCall(Me(j), j, "exec"))
    /\ UNCHANGED <<browserMutex, browser, availablePages, headless, driver, closer, hist>>

\* page.goto() settles; with waitAfterMs, goto() goes on with wait(ms, "background").
GotoDone(j) ==
    /\ sess[j].pc = "goto"
    /\ \E ok \in BOOLEAN, waitAfter \in BOOLEAN :
        IF ~ok THEN ~waitAfter /\ Apply(j, X([sess[j] EXCEPT !.pc = "throw"], activePageMutex))
        ELSE IF waitAfter
             THEN Apply(j, RunInBackgroundCall(Me(j), j, "wait"))
             ELSE Apply(j, Resume(Me(j), j))
    /\ UNCHANGED <<browserMutex, browser, availablePages, headless, driver, closer, hist>>

\* An addPageTask that gives the tab back only when the job succeeded
FinallyOnSuccessOnly(j) ==
    /\ sess[j].pc = "finally"
    /\ availablePages' = IF sess[j].err THEN availablePages
                         ELSE Append(availablePages, sess[j].tab)
    /\ sess' = [sess EXCEPT ![j] = [sess[j] EXCEPT !.pc = IF sess[j].err THEN "failed" ELSE "done"]]
    /\ UNCHANGED <<activePageMutex, browserMutex, browser, headless, driver, closer, hist>>

\* addPageTask's catch (rethrow) and finally: the tab goes back to the pool.
Finally(j) ==
    /\ sess[j].pc = "finally"
    /\ availablePages' = AcceptClosedPage(availablePages, sess[j].tab)
    /\ SetSess(j, [sess[j] EXCEPT !.pc = IF sess[j].err THEN "failed" ELSE "done"])
    /\ UNCHANGED <<activePageMutex, browserMutex, browser, headless, driver, closer, hist>>

\* close() up to its first await
CloseCall ==
    /\ closer.pc = "idle"
    /\ closer.calls < MaxCloses
    /\ IF browser # None
       THEN /\ closer' = [pc |-> "closing", calls |-> closer.calls + 1]
            /\ UNCHANGED availablePages
       ELSE /\ closer' = [closer EXCEPT !.calls = @ + 1]
            /\ availablePages' = <<>>
    /\ UNCHANGED <<sess, activePageMutex, browserMutex, browser, headless, driver, hist>>

\* browser.close() settles.
CloseDone ==
    /\ closer.pc = "closing"
    /\ driver' = [driver EXCEPT !.closed = @ \cup {browser}]
    /\ browser' = None
    /\ availablePages' = <<>>
    /\ closer' = [closer EXCEPT !.pc = "idle"]
    /\ UNCHANGED <<sess, activePageMutex, browserMutex, headless, hist>>

(* ------------------------ PuppyteerPage: actions ----------------------- *)
SessionFrame == <<browserMutex, browser, availablePages, headless, driver, closer, hist>>

\* acquireActivePage() after `await activePageMutex.acquire()`
AcquireResume(j) ==
    /\ sess[j].pc = "acquire"
    /\ j \in activePageMutex.granted
    /\ \E d \in (IF InOp(sess[j], "poll") THEN Delays ELSE {0}) :
        Apply(j, X([StatusPopS([sess[j] EXCEPT !.inForeground = TRUE]) EXCEPT
                      !.pc = "front", !.acquired = TRUE, !.n = @ + d],
                   MutexResume(activePageMutex, j)))
    /\ UNCHANGED SessionFrame

\* page.bringToFront() settles: acquireActivePage() is over and its caller goes on.
FrontDone(j) ==
    /\ sess[j].pc = "front"
    /\ \E ok \in BOOLEAN :
        LET s == [sess[j] EXCEPT !.pend = ""]
            bgtail == sess[j].pend = "bgtail"
            caller == IF bgtail THEN Pop(s) ELSE s
        IN  IF ok
            THEN IF bgtail
                 THEN Apply(j, Resume(X(caller, activePageMutex), j))
                 ELSE Apply(j, X([Push(s, Frame("FG", TRUE, sess[j].pend, FALSE))
                                     EXCEPT !.pc = "run"], activePageMutex))
            ELSE Apply(j, X([caller EXCEPT !.pc = "throw"], activePageMutex))
    /\ UNCHANGED SessionFrame

\* The user function on top returns.
UserReturn(j) ==
    /\ sess[j].pc = "run"
    /\ Apply(j, ReturnFrom(Me(j), j))
    /\ UNCHANGED SessionFrame

\* The user function on top throws.
UserThrow(j) ==
    /\ sess[j].pc = "run"
    /\ Apply(j, X([sess[j] EXCEPT !.pc = "throw"], activePageMutex))
    /\ UNCHANGED SessionFrame

\* The error in flight leaves one more call.
Unwind(j) ==
    /\ sess[j].pc = "throw"
    /\ Apply(j, Unwinding(Me(j), j))
    /\ UNCHANGED SessionFrame

CanCall(j) == sess[j].pc = "run" /\ sess[j].ops < MaxOps
Called(j) == X([sess[j] EXCEPT !.ops = @ + 1, !.ret = "", !.n = 0, !.arg = "",
                               !.depth = Len(sess[j].statusStack)], activePageMutex)

\* The user function calls page.runInForeground(fn).
UserRunInForeground(j) ==
    /\ CanCall(j)
    /\ Depth(sess[j]) < MaxDepth
    /\ Apply(j, RunInForegroundCall(Called(j), j, "user"))
    /\ UNCHANGED SessionFrame

\* The user function calls page.runInBackground(fn).
UserRunInBackground(j) ==
    /\ CanCall(j)
    /\ Depth(sess[j]) < MaxDepth
    /\ Apply(j, RunInBackgroundCall(Called(j), j, "user"))
    /\ UNCHANGED SessionFrame

\* wait(ms, waitIn) and waitForNavigation(goOptions, waitIn) up to the first await
Routed(x, j, fn, waitIn) ==
    IF waitIn = "background" THEN RunInBackgroundCall(x, j, fn) ELSE StartFn(x, fn, waitIn)

Wait(j) ==
    /\ CanCall(j)
    /\ \E waitIn \in WaitModes : Apply(j, Routed(Called(j), j, "wait", waitIn))
    /\ UNCHANGED SessionFrame

\* The timer of wait() fires.
\* Where the element's centre can be after the settling wait of
\* scrollToElement: the layout may change while the page loads, scrolls
\* counting the changes.
LayoutAfter(s) ==
    IF InOp(s, "scroll") /\ s.scrolls < MaxScrolls
    THEN Points
    ELSE {s.at}

TimerDone(j) ==
    /\ sess[j].pc = "timer"
    /\ \E q \in LayoutAfter(sess[j]) :
        LET s == CASE InOp(sess[j], "poll") -> [sess[j] EXCEPT !.n = @ + PollInterval]
                   [] q # sess[j].at -> [sess[j] EXCEPT !.at = q, !.scrolls = @ + 1]
                   [] OTHER -> sess[j]
        IN  Apply(j, FnDone(X(StatusPopS(s), activePageMutex), j))
    /\ UNCHANGED SessionFrame

WaitForNavigation(j) ==
    /\ CanCall(j)
    /\ \E waitIn \in WaitModes : Apply(j, Routed(Called(j), j, "nav", waitIn))
    /\ UNCHANGED SessionFrame

\* page.waitForNavigation() settles.
NavDone(j) ==
    /\ sess[j].pc = "nav"
    /\ \E ok \in BOOLEAN :
        IF ok THEN Apply(j, FnDone(X(StatusPopS(sess[j]), activePageMutex), j))
        ELSE Apply(j, X([sess[j] EXCEPT !.pc = "throw"], activePageMutex))
    /\ UNCHANGED SessionFrame

\* The options of a selector query held in arg: "foreground" and "background"
\* are {timeoutMs: T, waitIn: ...} with T > 0, "" is {} and "background0" is
\* {waitIn: "background"}, both without timeoutMs.
SelectorOpts == WaitModes \cup {"", "background0"}

\* A test for `no timeout configured` that lets a background mode through
NoTimeoutUnlessBackground(opt) == opt = ""

\* waitForSelector: !options.timeoutMs
NoTimeout(opt) == opt \in {"", "background0"}

\* waitForSelector(selector, {timeoutMs, waitIn}) up to its first await:
\* the immediate query.
WaitForSelector(j) ==
    /\ CanCall(j)
    /\ \E opt \in SelectorOpts :
        Apply(j, X([Called(j).s EXCEPT !.pc = "imm", !.arg = opt], activePageMutex))
    /\ UNCHANGED SessionFrame

\* getSelectorImmediate() settles.
ImmDone(j) ==
    /\ sess[j].pc = "imm"
    /\ \E res \in {"found", "none", "error"} :
        LET s == [sess[j] EXCEPT !.arg = IF @ = "background0" THEN @ ELSE ""]
            waitIn == IF sess[j].arg = "background0" THEN "background" ELSE sess[j].arg
        IN
        CASE res = "error" -> Apply(j, X([s EXCEPT !.pc = "throw"], activePageMutex))
          [] res = "found" \/ (res = "none" /\ NoTimeout(sess[j].arg)) ->
             Apply(j, Resume(X([s EXCEPT !.ret = IF res = "found" THEN "el" ELSE "none"],
                               activePageMutex), j))
          [] OTHER ->
             LET w == X(Push(StatusPushS(s, SelMsg), Frame("WFS", FALSE, "wfs", FALSE)),
                        activePageMutex)
             IN  IF waitIn = "background"
                 THEN Apply(j, RunInBackgroundCall(w, j, "native"))
                 ELSE Apply(j, StartFn(w, "native", waitIn))
    /\ UNCHANGED SessionFrame

\* page.waitForSelector() settles: an element, or a timeout / driver error.
NativeDone(j) ==
    /\ sess[j].pc = "native"
    /\ \E ok \in BOOLEAN :
        IF ok THEN Apply(j, FnDone(X([sess[j] EXCEPT !.ret = "el"], activePageMutex), j))
        ELSE Apply(j, X([sess[j] EXCEPT !.pc = "throw"], activePageMutex))
    /\ UNCHANGED SessionFrame

(* ------------------------------ the system ----------------------------- *)
Next ==
    \/ \E j \in Jobs : GetPage(j)
    \/ \E j \in Jobs : CreateEnter(j)
    \/ \E j \in Jobs : LaunchDone(j)
    \/ \E j \in Jobs : PagesDone(j)
    \/ \E j \in Jobs : ViewportDone(j)
    \/ \E j \in Jobs : AfterCreate(j)
    \/ \E j \in Jobs : NewPageDone(j)
    \/ \E j \in Jobs : StartTry(j)
    \/ \E j \in Jobs : GotoDone(j)
    \/ \E j \in Jobs : Finally(j)
    \/ CloseCall
    \/ CloseDone
    \/ \E j \in Jobs : AcquireResume(j)
    \/ \E j \in Jobs : FrontDone(j)
    \/ \E j \in Jobs : UserReturn(j)
    \/ \E j \in Jobs : UserThrow(j)
    \/ \E j \in Jobs : Unwind(j)
    \/ \E j \in Jobs : UserRunInForeground(j)
    \/ \E j \in Jobs : UserRunInBackground(j)
    \/ \E j \in Jobs : Wait(j)
    \/ \E j \in Jobs : TimerDone(j)
    \/ \E j \in Jobs : WaitForNavigation(j)
    \/ \E j \in Jobs : NavDone(j)
    \/ \E j \in Jobs : WaitForSelector(j)
    \/ \E j \in Jobs : ImmDone(j)
    \/ \E j \in Jobs : NativeDone(j)

Spec == Init /\ [][Next]_vars

(* ------------- PuppyteerPage: queries, polling and interaction --------- *)
Throw(j) == Apply(j, X([sess[j] EXCEPT !.pc = "throw"], activePageMutex))

\* An awaited driver call settles: the method goes on with `next`, or the
\* call rejects.
Settled(j, next) ==
    /\ \E ok \in BOOLEAN : IF ok THEN Apply(j, next) ELSE Throw(j)
    /\ UNCHANGED SessionFrame

\* yield(); arg notes whether another session was queued for the mutex at
\* the call.
Yield(j) ==
    /\ CanCall(j)
    /\ LET queued == IF activePageMutex.queue # <<>> THEN "queued" ELSE ""
       IN  Apply(j, Routed(X([Called(j).s EXCEPT !.arg = queued], activePageMutex),
                           j, "yield", "background"))
    /\ UNCHANGED SessionFrame

\* waitForSelectorOrFail(selector, options) up to its first await
WaitForSelectorOrFail(j) ==
    /\ CanCall(j)
    /\ \E opt \in SelectorOpts :
        Apply(j, X([Push(Called(j).s, OpFrame("orfail")) EXCEPT !.pc = "imm", !.arg = opt],
                   activePageMutex))
    /\ UNCHANGED SessionFrame

\* hasAnySelector(selector, options) up to its first await
HasAnySelector(j) ==
    /\ CanCall(j)
    /\ \E opt \in SelectorOpts :
        Apply(j, X([Push(Called(j).s, OpFrame("has")) EXCEPT !.pc = "imm", !.arg = opt],
                   activePageMutex))
    /\ UNCHANGED SessionFrame

\* waitForAllSelectorsWithInner(selector, matcher, options) up to its first
\* await; arg keeps options.waitIn when a timeout (PollTimeout) is configured,
\* "" when none is; n is Date.now() - startTime.
WaitForAllSelectorsWithInner(j) ==
    /\ CanCall(j)
    /\ \E opt \in WaitModes \cup {""} :
        Apply(j, X([Push(Called(j).s, OpFrame("poll")) EXCEPT !.pc = "pollQuery", !.arg = opt],
                   activePageMutex))
    /\ UNCHANGED SessionFrame

\* One polling pass (page.$$ and the evaluation of each handle) is over.
PollQueryDone(j) ==
    /\ sess[j].pc = "pollQuery"
    /\ \E res \in {"match", "nomatch", "error"} :
        CASE res = "error" -> Throw(j)
          [] res = "match" ->
             Apply(j, Resume(X([Pop(sess[j]) EXCEPT !.ret = "list"], activePageMutex), j))
          [] OTHER ->
             IF sess[j].arg = ""
             THEN Apply(j, Resume(X([Pop(sess[j]) EXCEPT !.ret = "empty"], activePageMutex), j))
             ELSE Apply(j, Routed(Me(j), j, "wait", sess[j].arg))
    /\ UNCHANGED SessionFrame

CanAct(j) == sess[j].pc = "run" /\ sess[j].acts < MaxActs
Acting(j) == [sess[j] EXCEPT !.acts = @ + 1, !.ret = "", !.scrolls = 0,
                             !.depth = Len(sess[j].statusStack)]

\* clickOnElement(el, options) up to its first await: getElementCenter, which
\* is scrollToElement when options.scrollIntoView is not false.
ClickOnElement(j) ==
    /\ CanAct(j)
    /\ \E scrollIntoView \in BOOLEAN :
        IF scrollIntoView
        THEN Apply(j, X([Push(Acting(j), OpFrame("click.scroll")) EXCEPT !.pc = "scrCenter"],
                        activePageMutex))
        ELSE Apply(j, X([Acting(j) EXCEPT !.pc = "clkCenter"], activePageMutex))
    /\ UNCHANGED SessionFrame

\* typeInElement(el, text, options) up to its first await
TypeInElement(j) ==
    /\ CanAct(j)
    /\ \E scrollIntoView \in BOOLEAN :
        IF scrollIntoView
        THEN Apply(j, X([Push(Acting(j), OpFrame("type.scroll")) EXCEPT !.pc = "scrCenter"],
                        activePageMutex))
        ELSE Apply(j, X([StatusPushS(Acting(j), FocusMsg) EXCEPT !.pc = "focus"],
                        activePageMutex))
    /\ UNCHANGED SessionFrame

\* pressEscape() up to its await
PressEscape(j) ==
    /\ CanAct(j)
    /\ Apply(j, X([Acting(j) EXCEPT !.pc = "kbEscape"], activePageMutex))
    /\ UNCHANGED SessionFrame

Abs(n) == IF n < 0 THEN -n ELSE n

\* scrollToPoint: xDelta and yDelta (View's sides are even: rounding is exact)
Delta(pt) == [x |-> pt.x - View.innerWidth \div 2, y |-> pt.y - View.innerHeight \div 2]

\* A scrollToPoint that scrolls whatever the distance
AlwaysScrolls(pt) == TRUE

\* scrollToPoint: "only bother if it's a non-trivial amount"
NeedsScroll(pt) == Abs(Delta(pt).y) > 10 \/ Abs(Delta(pt).x) > 10

Between(v, a, b) == (a <= v /\ v <= b) \/ (b <= v /\ v <= a)

\* Where the element's centre can be after scrollToPoint(pt), the element
\* being at pt: window.scrollBy moves the view by the deltas, each axis
\* clamped by the document's scroll range.
ScrollBy(pt) ==
    IF NeedsScroll(pt)
    THEN {q \in Points : /\ Between(q.x, pt.x - Delta(pt).x, pt.x)
                         /\ Between(q.y, pt.y - Delta(pt).y, pt.y)}
    ELSE {pt}

\* An awaited call of scrollToElement rejects: its locals are gone.
ScrollThrow(j) ==
    Apply(j, X([sess[j] EXCEPT !.pc = "throw", !.pt = NoPt, !.at = NoPt, !.scrolls = 0],
               activePageMutex))

\* scrollToElement: the element's centre is known; scrollToPoint(prevPt)
\* pushes and pops its status and page.evaluate is awaited.
ScrollCenterDone(j) ==
    /\ sess[j].pc = "scrCenter"
    /\ \E ok \in BOOLEAN, p \in Points :
        IF ok
        THEN Apply(j, X([StatusPopS(StatusPushS(sess[j], ScrollMsg)) EXCEPT
                            !.pc = "scrEval", !.pt = p, !.at = p], activePageMutex))
        ELSE ScrollThrow(j)
    /\ UNCHANGED SessionFrame

\* scrollToElement: the scroll is done; wait(250, "foreground") to settle.
ScrollEvalDone(j) ==
    /\ sess[j].pc = "scrEval"
    /\ \E ok \in BOOLEAN, q \in ScrollBy(sess[j].pt) :
        IF ok
        THEN Apply(j, StartFn(X([Push(sess[j], OpFrame("scroll")) EXCEPT !.at = q],
                                activePageMutex), "wait", "foreground"))
        ELSE ScrollThrow(j)
    /\ UNCHANGED SessionFrame

\* scrollToElement: the centre was read again; scroll again when it moved.
ScrollCenter2Done(j) ==
    /\ sess[j].pc = "scrCenter2"
    /\ \E ok \in BOOLEAN :
        CASE ~ok -> ScrollThrow(j)
          [] ok /\ sess[j].at # sess[j].pt ->
             Apply(j, X([StatusPopS(StatusPushS(sess[j], ScrollMsg)) EXCEPT
                            !.pc = "scrEval", !.pt = sess[j].at], activePageMutex))
          [] OTHER -> Apply(j, Resume(Me(j), j))
    /\ UNCHANGED SessionFrame

\* clickOnElement: the centre is known (no scrolling); the mouse is moved.
ClickCenterDone(j) ==
    /\ sess[j].pc = "clkCenter"
    /\ Settled(j, X([StatusPushS(sess[j], MoveMsg) EXCEPT !.pc = "mouseMove"],
                             activePageMutex))

\* page.mouse.move() settles; the centre is read again.
MouseMoveDone(j) ==
    /\ sess[j].pc = "mouseMove"
    /\ Settled(j, X([StatusPushS(StatusPopS(sess[j]), ClickMsg) EXCEPT !.pc = "clkCenter2"],
             activePageMutex))

\* getElementCenter() settles; the mouse is clicked.
ClickCenter2Done(j) ==
    /\ sess[j].pc = "clkCenter2"
    /\ Settled(j, X([sess[j] EXCEPT !.pc = "mouseClick"], activePageMutex))

\* page.mouse.click() settles; wait(waitAfter, waitIn) unless waitAfter is 0.
MouseClickDone(j) ==
    /\ sess[j].pc = "mouseClick"
    /\ \E ok \in BOOLEAN, waitIn \in WaitModes \cup {""} :
        IF ~ok THEN waitIn = "" /\ Throw(j)
        ELSE IF waitIn = ""
             THEN Apply(j, Resume(X(StatusPopS(sess[j]), activePageMutex), j))
             ELSE Apply(j, Routed(X(Push(StatusPopS(sess[j]), OpFrame("click.after")),
                                    activePageMutex), j, "wait100", waitIn))
    /\ UNCHANGED SessionFrame

\* el.focus() settles; wait(200).
FocusDone(j) ==
    /\ sess[j].pc = "focus"
    /\ Settled(j, StartFn(X(Push(sess[j], OpFrame("type.focus")), activePageMutex),
                   "wait200", "undefined"))

\* The end of typeInElement: statusPop, then wait(waitMs, waitIn) when waitMs > 0.
TypeEnd(s0, j, waitIn) ==
    LET s == [s0 EXCEPT !.keys = <<>>, !.lines = <<>>, !.arg = ""] IN
    IF waitIn = ""
    THEN Resume(X(StatusPopS(s), activePageMutex), j)
    ELSE Routed(X(Push(StatusPopS(s), OpFrame("type.after")), activePageMutex),
                j, "wait100", waitIn)

\* typeInElement after the typing: Enter when options.pressReturnAtEnd, then
\* the end.  arg keeps the options that have come to bear: "single" or
\* "multi" (multiLinedShiftReturn), with ".ret" for pressReturnAtEnd.
AfterText(s, j, pressReturnAtEnd, waitIn) ==
    IF pressReturnAtEnd
    THEN X([s EXCEPT !.pc = "kbEnter", !.keys = Append(@, Enter), !.arg = @ \o ".ret"],
           activePageMutex)
    ELSE TypeEnd(s, j, waitIn)

\* A keyboard call of typeInElement rejects.
KbThrow(j) ==
    Apply(j, X([sess[j] EXCEPT !.pc = "throw", !.keys = <<>>, !.lines = <<>>, !.arg = ""],
               activePageMutex))

\* The loop body of the multi-line mode for the line the loop has come to:
\* the trimmed line is typed unless it is empty, else Shift goes down at once.
TypeLine(s) ==
    LET line == TrimEnd(Last(s.lines)) IN
    IF line # ""
    THEN X([s EXCEPT !.pc = "kbType", !.keys = Append(@, line)], activePageMutex)
    ELSE X([s EXCEPT !.pc = "kbShiftDown"], activePageMutex)

\* typeInElement goes on after wait(200): statusPop, statusPush, and the
\* first keyboard call.  In multi-line mode the text is taken line by line;
\* otherwise it is typed whole.
KbStart(j) ==
    /\ sess[j].pc = "kbStart"
    /\ \E multi \in BOOLEAN, line \in LineSet, more \in BOOLEAN :
        LET opts == IF multi THEN "multi" ELSE "single"
            s == [StatusPushS(StatusPopS(sess[j]), TypeMsg) EXCEPT !.arg = opts]
            text == IF more /\ MaxLines > 1 THEN <<line, "a">> ELSE <<line>>
        IN  IF multi
            THEN ~more /\ Apply(j, TypeLine([s EXCEPT !.lines = <<line>>]))
            ELSE Apply(j, X([s EXCEPT !.pc = "kbType", !.lines = text,
                                      !.keys = <<Join(text)>>], activePageMutex))
    /\ UNCHANGED SessionFrame

\* page.keyboard.type() settles: in multi-line mode Shift goes down, else
\* the typing is over.
KbTypeDone(j) ==
    /\ sess[j].pc = "kbType"
    /\ \E ok \in BOOLEAN, pressReturnAtEnd \in BOOLEAN, waitIn \in WaitModes \cup {""} :
        CASE ~ok -> ~pressReturnAtEnd /\ waitIn = "" /\ KbThrow(j)
          [] ok /\ sess[j].arg = "multi" ->
                /\ ~pressReturnAtEnd /\ waitIn = ""
                /\ Apply(j, X([sess[j] EXCEPT !.pc = "kbShiftDown"], activePageMutex))
          [] OTHER ->
                /\ pressReturnAtEnd => waitIn = ""
                /\ Apply(j, AfterText(sess[j], j, pressReturnAtEnd, waitIn))
    /\ UNCHANGED SessionFrame

\* page.keyboard.down('Shift') settles; Enter is pressed.
KbShiftDownDone(j) ==
    /\ sess[j].pc = "kbShiftDown"
    /\ \E ok \in BOOLEAN :
        IF ok THEN Apply(j, X([sess[j] EXCEPT !.pc = "kbShiftEnter",
                                              !.keys = Append(@, ShiftEnter)], activePageMutex))
        ELSE KbThrow(j)
    /\ UNCHANGED SessionFrame

\* page.keyboard.press('Enter') with Shift down settles.
KbShiftEnterDone(j) ==
    /\ sess[j].pc = "kbShiftEnter"
    /\ \E ok \in BOOLEAN :
        IF ok THEN Apply(j, X([sess[j] EXCEPT !.pc = "kbShiftUp"], activePageMutex))
        ELSE KbThrow(j)
    /\ UNCHANGED SessionFrame

\* page.keyboard.up('Shift') settles: the loop goes to the next line of the
\* text, or the typing is over.
KbShiftUpDone(j) ==
    /\ sess[j].pc = "kbShiftUp"
    /\ \E next \in LineSet \cup {"end", "error"}, pressReturnAtEnd \in BOOLEAN,
          waitIn \in WaitModes \cup {""} :
        CASE next = "error" -> ~pressReturnAtEnd /\ waitIn = "" /\ KbThrow(j)
          [] next = "end"   ->
                /\ pressReturnAtEnd => waitIn = ""
                /\ Apply(j, AfterText(sess[j], j, pressReturnAtEnd, waitIn))
          [] OTHER          ->
                /\ ~pressReturnAtEnd /\ waitIn = "" /\ Len(sess[j].lines) < MaxLines
                /\ Apply(j, TypeLine([sess[j] EXCEPT !.lines = Append(@, next)]))
    /\ UNCHANGED SessionFrame

\* page.keyboard.press('Enter') at the end settles.
KbEnterDone(j) ==
    /\ sess[j].pc = "kbEnter"
    /\ \E ok \in BOOLEAN, waitIn \in WaitModes \cup {""} :
        IF ~ok THEN waitIn = "" /\ KbThrow(j)
        ELSE Apply(j, TypeEnd(sess[j], j, waitIn))
    /\ UNCHANGED SessionFrame

\* page.keyboard.press('Escape') settles.
KbEscapeDone(j) ==
    /\ sess[j].pc = "kbEscape"
    /\ Settled(j, Resume(Me(j), j))

\* Jobs whose execution functions wait, yield, query and poll; close() is
\* not called.
NextQueries ==
    \/ \E j \in Jobs : GetPage(j)
    \/ \E j \in Jobs : CreateEnter(j)
    \/ \E j \in Jobs : LaunchDone(j)
    \/ \E j \in Jobs : PagesDone(j)
    \/ \E j \in Jobs : ViewportDone(j)
    \/ \E j \in Jobs : AfterCreate(j)
    \/ \E j \in Jobs : NewPageDone(j)
    \/ \E j \in Jobs : StartTry(j)
    \/ \E j \in Jobs : GotoDone(j)
    \/ \E j \in Jobs : Finally(j)
    \/ \E j \in Jobs : AcquireResume(j)
    \/ \E j \in Jobs : FrontDone(j)
    \/ \E j \in Jobs : UserReturn(j)
    \/ \E j \in Jobs : UserThrow(j)
    \/ \E j \in Jobs : Unwind(j)
    \/ \E j \in Jobs : UserRunInBackground(j)
    \/ \E j \in Jobs : TimerDone(j)
    \/ \E j \in Jobs : Wait(j)
    \/ \E j \in Jobs : Yield(j)
    \/ \E j \in Jobs : WaitForSelector(j)
    \/ \E j \in Jobs : WaitForSelectorOrFail(j)
    \/ \E j \in Jobs : HasAnySelector(j)
    \/ \E j \in Jobs : ImmDone(j)
    \/ \E j \in Jobs : NativeDone(j)
    \/ \E j \in Jobs : WaitForAllSelectorsWithInner(j)
    \/ \E j \in Jobs : PollQueryDone(j)

SpecQueries == Init /\ [][NextQueries]_vars

\* Jobs whose execution functions click, type and press Escape, before or
\* after a waitForSelector; close() is not called.
NextInteract ==
    \/ \E j \in Jobs : GetPage(j)
    \/ \E j \in Jobs : CreateEnter(j)
    \/ \E j \in Jobs : LaunchDone(j)
    \/ \E j \in Jobs : PagesDone(j)
    \/ \E j \in Jobs : ViewportDone(j)
    \/ \E j \in Jobs : AfterCreate(j)
    \/ \E j \in Jobs : NewPageDone(j)
    \/ \E j \in Jobs : StartTry(j)
    \/ \E j \in Jobs : GotoDone(j)
    \/ \E j \in Jobs : Finally(j)
    \/ \E j \in Jobs : AcquireResume(j)
    \/ \E j \in Jobs : FrontDone(j)
    \/ \E j \in Jobs : UserReturn(j)
    \/ \E j \in Jobs : UserThrow(j)
    \/ \E j \in Jobs : Unwind(j)
    \/ \E j \in Jobs : TimerDone(j)
    \/ \E j \in Jobs : WaitForSelector(j)
    \/ \E j \in Jobs : ImmDone(j)
    \/ \E j \in Jobs : NativeDone(j)
    \/ \E j \in Jobs : ClickOnElement(j)
    \/ \E j \in Jobs : TypeInElement(j)
    \/ \E j \in Jobs : PressEscape(j)
    \/ \E j \in Jobs : ScrollCenterDone(j)
    \/ \E j \in Jobs : ScrollEvalDone(j)
    \/ \E j \in Jobs : ScrollCenter2Done(j)
    \/ \E j \in Jobs : ClickCenterDone(j)
    \/ \E j \in Jobs : MouseMoveDone(j)
    \/ \E j \in Jobs : ClickCenter2Done(j)
    \/ \E j \in Jobs : MouseClickDone(j)
    \/ \E j \in Jobs : FocusDone(j)
    \/ \E j \in Jobs : KbStart(j)
    \/ \E j \in Jobs : KbTypeDone(j)
    \/ \E j \in Jobs : KbShiftDownDone(j)
    \/ \E j \in Jobs : KbShiftEnterDone(j)
    \/ \E j \in Jobs : KbShiftUpDone(j)
    \/ \E j \in Jobs : KbEnterDone(j)
    \/ \E j \in Jobs : KbEscapeDone(j)

SpecInteract == Init /\ [][NextInteract]_vars

\* Jobs whose execution functions poll with waitForAllSelectorsWithInner;
\* timers fire and polling passes end.
NextPoll ==
    \/ \E j \in Jobs : GetPage(j)
    \/ \E j \in Jobs : CreateEnter(j)
    \/ \E j \in Jobs : LaunchDone(j)
    \/ \E j \in Jobs : PagesDone(j)
    \/ \E j \in Jobs : ViewportDone(j)
    \/ \E j \in Jobs : AfterCreate(j)
    \/ \E j \in Jobs : NewPageDone(j)
    \/ \E j \in Jobs : StartTry(j)
    \/ \E j \in Jobs : GotoDone(j)
    \/ \E j \in Jobs : Finally(j)
    \/ \E j \in Jobs : AcquireResume(j)
    \/ \E j \in Jobs : FrontDone(j)
    \/ \E j \in Jobs : UserReturn(j)
    \/ \E j \in Jobs : UserThrow(j)
    \/ \E j \in Jobs : Unwind(j)
    \/ \E j \in Jobs : TimerDone(j)
    \/ \E j \in Jobs : WaitForAllSelectorsWithInner(j)
    \/ \E j \in Jobs : PollQueryDone(j)

SpecPoll ==
    /\ Init /\ [][NextPoll]_vars
    /\ \A j \in Jobs : WF_vars(TimerDone(j)) /\ WF_vars(PollQueryDone(j))

(* --------------------------- vocabulary of the claims ------------------ *)
Ended == {"done", "failed"}
Finished(j) == sess[j].pc \in {"finally", "done", "failed"}
Blocked(j) == sess[j].pc = "acquire" /\ j \notin activePageMutex.granted
Running(j) == sess[j].tab # NoTab /\ sess[j].pc \notin Ended
Range(q) == {q[i] : i \in 1..Len(q)}
Count(e, q) == Cardinality({i \in 1..Len(q) : q[i] = e})

\* The innermost runInForeground / runInBackground call of a session: "FG",
\* "BG", or "none" outside both.
Context(s) ==
    LET idx == {i \in 1..Len(s.frames) : s.frames[i].k \in {"FG", "BG"}}
    IN  IF idx = {} THEN "none"
        ELSE s.frames[CHOOSE i \in idx : \A k \in idx : k <= i].k

\* The session is executing code it runs as foreground code: user code, or a
\* session operation awaiting the driver or a timer, inside runInForeground
\* and outside runInBackground.
InForegroundCode(j) ==
    /\ sess[j].pc \in {"run", "timer", "nav", "native", "imm"}
    /\ Context(sess[j]) = "FG"

\* The step ends the innermost suspended call of j (by return or by error).
CallEnds(j) ==
    /\ sess[j].frames # <<>>
    /\ Len(sess'[j].frames) < Len(sess[j].frames)

\* The step makes j call runInBackground.
BackgroundCalled(j) ==
    /\ Len(sess'[j].frames) = Len(sess[j].frames) + 1
    /\ TopFrame(sess'[j]).k = "BG"

(* -------------------------------- claims ------------------------------- *)
\* C1: mutual exclusion of foreground code: at most one session is at any
\* instant executing code it runs as foreground code.
MutualExclusion_C1 ==
    Cardinality({j \in Jobs : InForegroundCode(j)}) <= 1

\* C2: guaranteed release: the active-page mutex is never left held by a
\* session whose runInForeground call has finished, and the mutex leaves a
\* session that holds it only by a step of that same session.
GuaranteedRelease_C2 ==
    /\ [](\A j \in Jobs : Finished(j) => activePageMutex.holder # j)
    /\ [][\A j \in Jobs :
            (activePageMutex.holder = j /\ activePageMutex'.holder # j)
              => sess'[j] # sess[j]
       ]_vars

\* C3: the in-foreground flag reflects token ownership: at most one session
\* has the flag set, a session has it set only while it holds the mutex, and
\* the holder of the mutex (once its acquire() has returned) has it set.
FlagReflectsOwnership_C3 ==
    /\ Cardinality({j \in Jobs : sess[j].inForeground}) <= 1
    /\ \A j \in Jobs : sess[j].inForeground => activePageMutex.holder = j
    /\ \A j \in Jobs : (activePageMutex.holder = j /\ sess[j].pc # "acquire")
                            => sess[j].inForeground

\* C4: re-entrancy: a runInForeground call made by a session that holds the
\* token neither acquires nor releases it, and the session still holds the
\* token when that nested call ends.
Reentrancy_C4 ==
    [][\A j \in Jobs :
        /\ (/\ sess[j].pc = "run" /\ sess[j].inForeground /\ activePageMutex.holder = j
            /\ Len(sess'[j].frames) = Len(sess[j].frames) + 1
            /\ TopFrame(sess'[j]).k = "FG")
              => (/\ activePageMutex' = activePageMutex /\ sess'[j].pc = "run"
                  /\ ~TopFrame(sess'[j]).rel)
        /\ (/\ CallEnds(j) /\ TopFrame(sess[j]).k = "FG"
            /\ ~TopFrame(sess[j]).rel /\ TopFrame(sess[j]).held)
              => activePageMutex'.holder = j
    ]_vars

\* C5: runInBackground called with the token held gives control back to its
\* caller only with the token held again; called without the token it leaves
\* the mutex and the flag alone.
BackgroundRestoresForeground_C5 ==
    [][\A j \in Jobs :
        /\ (CallEnds(j) /\ TopFrame(sess[j]).k = "BG" /\ TopFrame(sess[j]).rel)
              => (activePageMutex'.holder = j /\ sess'[j].inForeground)
        /\ (BackgroundCalled(j) /\ ~sess[j].inForeground)
              => (/\ activePageMutex' = activePageMutex
                  /\ ~sess'[j].inForeground /\ ~TopFrame(sess'[j]).rel)
    ]_vars

\* C9: no starvation: no reachable state has a session blocked on the token
\* while every other session is blocked on it too or has finished.
NoStarvation_C9 ==
    ~ /\ \E j \in Jobs : Blocked(j)
      /\ \A k \in Jobs : Blocked(k) \/ sess[k].pc \in Ended

\* C6: lazy single launch: getPage with a non-empty pool takes a pooled tab
\* and launches nothing; a launch is only made under the browser mutex while
\* no browser is recorded, so at most one is in flight; a further launch is
\* only ever made after a create() failed or close() was called, so that
\* without those concurrent callers launch exactly one browser and all tabs
\* handed out are tabs of it.
Creating(j) == sess[j].pc \in {"crLaunch", "crPages", "crViewport"}
LazySingleLaunch_C6 ==
    /\ [](/\ Cardinality({j \in Jobs : Creating(j)}) <= 1
          /\ \A j \in Jobs : Creating(j) => (browserMutex.holder = j /\ browser = None)
          /\ hist.launchCalls <= 1 + hist.createFailures + closer.calls
          /\ (closer.calls = 0 /\ hist.createFailures = 0) =>
                /\ \A j \in Jobs : sess[j].tab # NoTab =>
                        (sess[j].tab.b = 1 /\ hist.launchCalls = 1)
                /\ \A i \in 1..Len(availablePages) : availablePages[i].b = 1)
    /\ [][\A j \in Jobs :
            (sess[j].pc = "idle" /\ sess'[j].pc # "idle" /\ availablePages # <<>>)
              => (/\ sess'[j].pc = "gotPage"
                  /\ sess'[j].tab = availablePages[Len(availablePages)]
                  /\ hist' = hist /\ browserMutex' = browserMutex /\ driver' = driver)
       ]_vars

\* C6 witness: a second caller, which found pool and browser absent, gets the
\* browser mutex after the one launch made by the first caller was recorded.
Witness_C6 ==
    \E j, k \in Jobs :
        /\ j # k /\ hist.launchCalls = 1 /\ closer.calls = 0 /\ hist.createFailures = 0
        /\ sess[k].pc = "crMutex" /\ k \in browserMutex.granted
        /\ browser # None /\ sess[j].lb = browser

\* C7: exclusive tab ownership: no tab is owned by two running jobs, a tab
\* owned by a running job is not in the pool, and the pool never holds the
\* same tab twice.
ExclusiveTabOwnership_C7 ==
    /\ \A j, k \in Jobs : (j # k /\ Running(j) /\ Running(k)) => sess[j].tab # sess[k].tab
    /\ \A j \in Jobs : Running(j) => sess[j].tab \notin Range(availablePages)
    /\ \A i, k \in 1..Len(availablePages) : i # k => availablePages[i] # availablePages[k]

\* C7 witness: a running job owns a tab that an earlier job gave back, while
\* the pool holds another tab.
Witness_C7 ==
    \E j, k \in Jobs :
        /\ j # k /\ Running(j) /\ sess[k].pc \in Ended
        /\ sess[j].tab = sess[k].tab

\* C8: tab always returned: the step that ends a job which obtained a tab
\* appends that tab to the pool, on success and on failure alike; a job ends
\* once; nothing else puts the tab of a running job into the pool; and the job
\* ends as failed exactly when an error was raised.
TabAlwaysReturned_C8 ==
    [][\A j \in Jobs :
        /\ (sess[j].tab # NoTab /\ sess[j].pc \notin Ended /\ sess'[j].pc \in Ended)
              => (/\ availablePages' = Append(availablePages, sess[j].tab)
                  /\ (sess'[j].pc = "failed") = sess[j].err)
        /\ sess[j].pc \in Ended => sess'[j] = sess[j]
        /\ (Running(j) /\ Count(sess[j].tab, availablePages') > Count(sess[j].tab, availablePages))
              => sess'[j].pc \in Ended
        /\ (sess[j].pc = "throw" /\ sess'[j].pc = "finally") => sess'[j].err
    ]_vars

\* C8 witness: a job whose body failed has ended and its tab is in the pool.
Witness_C8 ==
    \E j \in Jobs :
        /\ sess[j].pc = "failed" /\ sess[j].acquired
        /\ sess[j].tab # NoTab /\ sess[j].tab \in Range(availablePages)

\* C10: the initial navigation of a job runs before the session has acquired
\* the token and without it; the execution function is invoked only after the
\* session has acquired the token, with the in-foreground flag set.
InGoto(j) == sess[j].frames # <<>> /\ sess[j].frames[1].k = "GOTO"
ExecInvoked(j) == sess[j].frames # <<>> /\ sess[j].frames[1].fn = "exec"
NavigateThenAcquire_C10 ==
    /\ [](\A j \in Jobs :
            /\ InGoto(j) => (/\ ~sess[j].inForeground /\ ~sess[j].acquired
                              /\ activePageMutex.holder # j
                              /\ j \notin Range(activePageMutex.queue))
            /\ ExecInvoked(j) => sess[j].acquired)
    /\ [][\A j \in Jobs :
            (~ExecInvoked(j) /\ ExecInvoked(j)')
               => (sess[j].inForeground /\ sess'[j].inForeground /\ sess[j].acquired)
       ]_vars

\* C10 witness: a job is in its initial navigation while another session
\* holds the token and runs its execution function.
Witness_C10 ==
    \E j, k \in Jobs :
        /\ sess[j].pc = "goto"
        /\ ExecInvoked(k) /\ InForegroundCode(k) /\ activePageMutex.holder = k

(* ------------------ status calls made directly on a session ------------ *)
\* User code (through taskInfo.fStatus and the public methods) calls status,
\* statusPush and statusPop on a PuppyteerPage in any order.
StatusFrame == <<activePageMutex, browserMutex, browser, availablePages,
                 headless, driver, closer, hist>>

\* call keeps the method and the message of the last such call.
Direct(s, op, msg) == [s EXCEPT !.call = [op |-> op, msg |-> msg]]

StatusCall(j) ==
    /\ \E msg \in Msgs : SetSess(j, Direct(StatusS(sess[j], msg), "status", msg))
    /\ UNCHANGED StatusFrame

StatusPushCall(j) ==
    /\ Len(sess[j].statusStack) < MaxStack
    /\ \E msg \in Msgs : SetSess(j, Direct(StatusPushS(sess[j], msg), "statusPush", msg))
    /\ UNCHANGED StatusFrame

StatusPopCall(j) ==
    /\ SetSess(j, Direct(StatusPopS(sess[j]), "statusPop", ""))
    /\ UNCHANGED StatusFrame

\* Status calls touch nothing but their own session: one session is driven.
StatusJobs == {1}

NextStatus ==
    \/ \E j \in StatusJobs : StatusCall(j)
    \/ \E j \in StatusJobs : StatusPushCall(j)
    \/ \E j \in StatusJobs : StatusPopCall(j)

SpecStatus == Init /\ [][NextStatus]_vars

\* C14: status push/pop round trip: a statusPop() after any statusPush(m)
\* gives back the stack and the published status of before the push, and the
\* entry pushed on top of a non-empty entry p is p, " -- " and m.
PushPopRoundTrip_C14 ==
    [][\A j \in Jobs : \A m \in Msgs :
        (sess'[j] # sess[j] /\ sess'[j].call = [op |-> "statusPush", msg |-> m]) =>
            /\ StatusPopS(sess'[j]).statusStack = sess[j].statusStack
            /\ StatusPopS(sess'[j]).fStatus = sess[j].fStatus
            /\ Top(sess[j].statusStack) # "" =>
                    Top(sess'[j].statusStack) = Top(sess[j].statusStack) \o " -- " \o m
            /\ sess[j].statusStack = <<"A">> /\ m = "B" =>
                    /\ Top(sess'[j].statusStack) = "A -- B"
                    /\ StatusPopS(sess'[j]).fStatus = "A"
    ]_vars

\* C14 witness: "A" was pushed, then "B": the top entry is "A -- B".
Witness_C14 ==
    \E j \in Jobs : /\ sess[j].statusStack = <<"A", "A -- B">>
                      /\ sess[j].call = [op |-> "statusPush", msg |-> "B"]

\* C15: status sink consistency: the last string given to the status callback
\* is the top entry of the status stack, or "" when the stack is empty.
SinkConsistency_C15 ==
    \A j \in Jobs : sess[j].fStatus = Top(sess[j].statusStack)

\* C15 witness: a statusPop() has uncovered an entry that status() had
\* replaced, and that entry is what was published last.
Witness_C15 ==
    \E j \in Jobs : /\ sess[j].statusStack = <<"A", "B">> /\ sess[j].fStatus = "B"
                      /\ sess[j].call = [op |-> "statusPop", msg |-> ""]

\* C16: status(msg) on an empty stack does what statusPush(msg) does; on a
\* non-empty stack it replaces the top entry by msg, keeps the depth and the
\* entries below, and publishes msg.
StatusReplacesTop_C16 ==
    [][\A j \in Jobs : \A m \in Msgs :
        (sess'[j] # sess[j] /\ sess'[j].call = [op |-> "status", msg |-> m]) =>
            LET old == sess[j].statusStack
                new == sess'[j].statusStack
            IN  IF old = <<>>
                THEN /\ new = StatusPushS(sess[j], m).statusStack /\ Len(new) = 1
                     /\ sess'[j].fStatus = StatusPushS(sess[j], m).fStatus
                ELSE /\ Len(new) = Len(old)
                     /\ \A i \in 1..(Len(old) - 1) : new[i] = old[i]
                     /\ new[Len(new)] = m
                     /\ sess'[j].fStatus = m
    ]_vars

\* C16 witness: status("B") was called on a stack of two entries whose top
\* was "A -- A": the top is "B" and the entry below is untouched.
Witness_C16 ==
    \E j \in Jobs :
        /\ sess[j].statusStack = <<"A", "B">>
        /\ sess[j].call = [op |-> "status", msg |-> "B"]

\* C20: shutdown and reuse: when close() completes on a recorded browser the
\* browser is closed, no browser is recorded and the pool is empty; and the
\* next getPage after a shutdown, with no browser recorded, goes to launch a
\* new browser, whatever running jobs and their tab releases did meanwhile.
ShutdownAndReuse_C20 ==
    [][/\ (closer.pc = "closing" /\ closer'.pc = "idle")
            => (browser' = None /\ availablePages' = <<>> /\ browser \in driver'.closed)
       /\ \A j \in Jobs :
            (/\ sess[j].pc = "idle" /\ sess'[j].pc # "idle"
             /\ driver.closed # {} /\ closer.pc = "idle" /\ browser = None)
              => (sess'[j].pc = "crMutex" /\ sess'[j].tab = NoTab)
    ]_vars

\* The pointer and keyboard calls of clickOnElement, typeInElement and
\* pressEscape that a session is awaiting.
InputPcs == {"mouseMove", "mouseClick", "kbType", "kbShiftDown", "kbShiftEnter",
             "kbShiftUp", "kbEnter", "kbEscape"}

\* C11: interaction only in foreground: a session awaiting a pointer or
\* keyboard call of clickOnElement, typeInElement or pressEscape, made
\* outside any runInBackground of the job's own, holds the active-page mutex.
InteractionInForeground_C11 ==
    \A j \in Jobs :
        (sess[j].pc \in InputPcs /\ Context(sess[j]) # "BG") => activePageMutex.holder = j

\* The wait() a session is sleeping in was called with mode "background":
\* it runs in a runInBackground frame.
BackgroundWait(s) == TopFrame(s).k = "BG" /\ TopFrame(s).fn \in WaitFns

\* C12: wait(ms, mode) selects token ownership during the delay: while the
\* timer of a wait in mode "background" runs the session does not hold the
\* mutex, and it holds it again when that wait ends if it held it at the call;
\* while the timer of a wait in mode "foreground" runs the session holds it.
WaitSelectsOwnership_C12 ==
    /\ [](\A j \in Jobs : sess[j].pc = "timer" =>
            IF BackgroundWait(sess[j]) THEN activePageMutex.holder # j
            ELSE IF TopFrame(sess[j]) = OpFrame("type.focus") THEN TRUE    \* no mode given
            ELSE activePageMutex.holder = j)
    /\ [][\A j \in Jobs :
            (CallEnds(j) /\ BackgroundWait(sess[j]) /\ TopFrame(sess[j]).held)
              => activePageMutex'.holder = j
       ]_vars

\* The runInBackground frame of a yield() made by a session that held the token.
YieldFrame == Frame("BG", TRUE, "yield", TRUE)

\* C13: yield hands over the foreground: when a session that holds the token
\* calls yield() while another session is queued for it, the first queued
\* session gets the token in that very step; when that yield() returns, no
\* other session is still between getting the token and starting its
\* function, and the yielding session holds the token again.
YieldHandsOver_C13 ==
    [][\A j \in Jobs :
        /\ (/\ Len(sess'[j].frames) = Len(sess[j].frames) + 1
            /\ TopFrame(sess'[j]) = YieldFrame
            /\ activePageMutex.holder = j /\ activePageMutex.queue # <<>>)
              => activePageMutex'.holder = Head(activePageMutex.queue)
        /\ (/\ CallEnds(j) /\ TopFrame(sess[j]) = YieldFrame
            /\ sess[j].arg = "queued" /\ sess'[j].pc # "throw")
              => /\ \A k \in Jobs \ {j} :
                        ~(k \in activePageMutex'.granted \/ sess'[k].pc = "front")
                 /\ activePageMutex'.holder = j /\ sess'[j].inForeground
    ]_vars

\* The step takes j out of waitForSelectorOrFail.
OrFailEnds(j) == InOp(sess[j], "orfail") /\ ~InOp(sess'[j], "orfail")

\* C17: a failed native wait (timeout or driver error) makes waitForSelector
\* return none without throwing; waitForSelectorOrFail ends with the error
\* that carries the selector exactly when waitForSelector returned none, and
\* returns the element otherwise.
SelectorWaitResults_C17 ==
    [][\A j \in Jobs :
        /\ (/\ sess[j].pc = "throw" /\ sess[j].frames # <<>> /\ TopFrame(sess[j]).k = "WFS"
            /\ sess'[j] # sess[j])
              => /\ sess'[j].ret = IF InOp(sess[j], "has") THEN "false" ELSE "none"
                 /\ sess'[j].pc = "throw" => (OrFailEnds(j) /\ sess'[j].errMsg = SelErr)
        /\ OrFailEnds(j)
              => /\ (sess'[j].ret = "none") <=>
                        (/\ sess'[j].pc = "throw"
                         /\ sess'[j].errMsg = "Couldn't find required selector: #sel")
                 /\ sess'[j].pc # "throw" => sess'[j].ret = "el"
    ]_vars

\* C17 witness: waitForSelectorOrFail in background mode has thrown the
\* selector error after the native wait failed (the failed background call
\* left the session without the token).
Witness_C17 ==
    \E j \in Jobs :
        /\ sess[j].pc = "throw" /\ sess[j].errMsg = SelErr /\ sess[j].ret = "none"
        /\ ~sess[j].inForeground /\ Len(sess[j].frames) = 1

\* An error arises in the step, other than the one waitForSelectorOrFail throws.
ErrorArises(j) ==
    sess[j].pc # "throw" /\ sess'[j].pc = "throw" /\ sess'[j].errMsg # SelErr

\* The session is inside getSelectorImmediate, waitForSelector,
\* hasAnySelector or waitForAllSelectorsWithInner.
InAbsentResultApi(s) ==
    s.pc \in {"imm", "native", "pollQuery"} \/ InOp(s, "poll") \/ InOp(s, "has")
        \/ \E i \in 1..Len(s.frames) : s.frames[i].k = "WFS"

\* The error in flight will be caught by waitForSelector.
InTryOfWaitForSelector(s) == \E i \in 1..Len(s.frames) : s.frames[i].k = "WFS"

\* C18: absent-result APIs never throw: an error that arises inside
\* getSelectorImmediate, waitForSelector, hasAnySelector or
\* waitForAllSelectorsWithInner arises inside the try of waitForSelector.
AbsentResultNeverThrows_C18 ==
    [][\A j \in Jobs :
        (ErrorArises(j) /\ InAbsentResultApi(sess[j])) => InTryOfWaitForSelector(sess'[j])
    ]_vars

\* waitForAllSelectorsWithInner of j, with a timeout, is under way / returns
\* the empty list in this step.
Polling(j) == InOp(sess[j], "poll") /\ sess[j].arg # ""
PollReturnsEmpty(j) == Polling(j) /\ ~InOp(sess'[j], "poll") /\ sess'[j].ret = "empty"

NextCreate ==
    \/ \E j \in Jobs : GetPage(j)
    \/ \E j \in Jobs : CreateEnter(j)
    \/ \E j \in Jobs : LaunchDone(j)
    \/ \E j \in Jobs : PagesDone(j)
    \/ \E j \in Jobs : ViewportDone(j)
    \/ \E j \in Jobs : AfterCreate(j)
    \/ \E j \in Jobs : NewPageDone(j)
    \/ \E j \in Jobs : StartTry(j)
    \/ \E j \in Jobs : GotoDone(j)
    \/ \E j \in Jobs : Finally(j)
    \/ CloseCall
    \/ CloseDone
    \/ \E j \in Jobs : AcquireResume(j)
    \/ \E j \in Jobs : FrontDone(j)
    \/ \E j \in Jobs : UserReturn(j)
    \/ \E j \in Jobs : UserThrow(j)
    \/ \E j \in Jobs : Unwind(j)
    \/ \E j \in Jobs : TimerDone(j)

SpecCreate ==
    /\ Init /\ [][NextCreate]_vars
    /\ \A j \in Jobs : /\ WF_vars(CreateEnter(j)) /\ WF_vars(LaunchDone(j))
                       /\ WF_vars(PagesDone(j)) /\ WF_vars(ViewportDone(j))

\* The step is the failure of the launch() that j awaits in create().
LaunchFails(j) == sess[j].pc = "crLaunch" /\ sess'[j].pc = "failed"

\* C21: launch failure: the step in which launch() fails ends the caller's
\* getPage with the error, releases the browser mutex (to the first queued
\* caller, if any), records no browser and leaves the pool alone; a caller
\* that enters the mutex callback while no browser is recorded launches; and
\* no caller waits for the browser mutex forever.
LaunchFailure_C21 ==
    /\ [][\A j \in Jobs :
            /\ LaunchFails(j) =>
                /\ sess'[j].err /\ sess'[j].tab = NoTab
                /\ browserMutex.holder = j
                /\ browserMutex'.holder # j /\ j \notin browserMutex'.granted
                /\ browser' = None /\ availablePages' = availablePages
                /\ driver' = driver
                /\ IF browserMutex.queue = <<>> THEN browserMutex'.holder = None
                   ELSE /\ browserMutex'.holder = Head(browserMutex.queue)
                        /\ Head(browserMutex.queue) \in browserMutex'.granted
            /\ (sess[j].pc = "crMutex" /\ sess'[j].pc # "crMutex" /\ browser = None)
                  => (sess'[j].pc = "crLaunch" /\ hist'.launchCalls = hist.launchCalls + 1)
       ]_vars
    /\ \A j \in Jobs : (sess[j].pc = "crMutex") ~> (sess[j].pc # "crMutex")

\* C21 witness: the first launch failed (the driver started no browser) while
\* a second caller was queued; that caller is now launching afresh.
Witness_C21 ==
    \E j, k \in Jobs :
        /\ sess[j].pc = "failed" /\ sess[j].err /\ sess[j].tab = NoTab
        /\ driver.launched = 0 /\ hist.createFailures = 1
        /\ sess[k].pc = "crLaunch" /\ hist.launchCalls = 2 /\ browserMutex.holder = k

\* C22: shared-resource policy: a step that changes the pool or the recorded
\* browser is a step of the session that holds the browser mutex, or it
\* leaves the recorded browser alone and appends one tab to the pool.
SharedResourcePolicy_C22 ==
    [][(availablePages' # availablePages \/ browser' # browser) =>
          \/ \E j \in Jobs : browserMutex.holder = j /\ sess'[j] # sess[j]
          \/ /\ browser' = browser
             /\ Len(availablePages') = Len(availablePages) + 1
             /\ Front(availablePages') = availablePages
    ]_vars

\* What a step of waitForSelector leaves alone when it returns at once: the
\* status stack and the published status, the token and the flag, and the
\* calls under way.
ReturnsAtOnce(j) ==
    /\ sess'[j].pc \notin {"native", "imm"}
    /\ sess'[j].statusStack = sess[j].statusStack /\ sess'[j].fStatus = sess[j].fStatus
    /\ activePageMutex' = activePageMutex /\ sess'[j].inForeground = sess[j].inForeground
    /\ Len(sess'[j].frames) <= Len(sess[j].frames)

\* C23: when the immediate query of waitForSelector settles without error,
\* an element found is returned at once; with no element and no timeout
\* configured none is returned at once, whatever waitIn is: no native wait is
\* begun, no status entry pushed and the token is not released; the native
\* wait is begun only when a timeout is configured.
ImmediateShortCircuit_C23 ==
    [][\A j \in Jobs :
        (sess[j].pc = "imm" /\ sess'[j] # sess[j]) =>
            /\ sess'[j].ret \in {"el", "true"} => ReturnsAtOnce(j)
            /\ sess[j].arg \in {"", "background0"} =>
                  \/ sess'[j].pc = "throw" /\ sess'[j].ret = ""
                  \/ sess'[j].ret \in {"el", "none", "true", "false"} /\ ReturnsAtOnce(j)
            /\ sess'[j].pc = "native" =>
                  (sess[j].arg \in WaitModes /\ Top(sess'[j].statusStack) # Top(sess[j].statusStack))
    ]_vars

\* C23 witness: waitForSelector(sel, {waitIn: "background"}), without timeout,
\* has returned none to a session that holds the token with an empty status
\* stack.
Witness_C23 ==
    \E j \in Jobs :
        /\ sess[j].pc = "run" /\ sess[j].ret = "none" /\ sess[j].arg = "background0"
        /\ activePageMutex.holder = j /\ sess[j].inForeground /\ sess[j].statusStack = <<>>

(* ------------- PuppyteerPage: selector queries with options.visible ---- *)
\* nm is the number of handles page.$$ returned; checks holds the results of
\* the isTrulyVisible calls made on them so far, in driver order.

\* waitForSelector(selector, {visible: true, timeoutMs, waitIn}) up to its
\* first await: getSelectorImmediate awaits page.$$.
WaitForSelectorVisible(j) ==
    /\ CanCall(j)
    /\ \E opt \in SelectorOpts :
        Apply(j, X([Called(j).s EXCEPT !.pc = "immAll", !.arg = opt, !.nm = 0, !.checks = <<>>],
                   activePageMutex))
    /\ UNCHANGED SessionFrame

\* getSelectorImmediate(selector, {visible: true}) has returned to
\* waitForSelector: from the first call the element is returned, or none when
\* no timeout is configured, or the native wait is begun; from the call after
\* the native wait the result is returned.
VisibleImmediateReturns(x, j, found) ==
    LET r == IF found THEN "el" ELSE "none"
        opt == x.s.arg
        waitIn == IF opt = "background0" THEN "background" ELSE opt
    IN  IF opt = "recheck" \/ found \/ NoTimeout(opt)
        THEN Resume(X([x.s EXCEPT !.ret = r], x.m), j)
        ELSE LET w == X(Push(StatusPushS([x.s EXCEPT !.arg = ""], SelMsg),
                             Frame("WFS", FALSE, "wfs.visible", FALSE)), x.m)
             IN  IF waitIn = "background" THEN RunInBackgroundCall(w, j, "native")
                 ELSE StartFn(w, "native", waitIn)

\* page.$$ settles with its handles.
QueryAllDone(j) ==
    /\ sess[j].pc = "immAll"
    /\ \E ok \in BOOLEAN, n \in 0..MaxMatches :
        CASE ~ok   -> n = 0 /\ Throw(j)
          [] ok /\ n = 0 -> Apply(j, VisibleImmediateReturns(Me(j), j, FALSE))
          [] OTHER -> Apply(j, X([sess[j] EXCEPT !.pc = "immVis", !.nm = n], activePageMutex))
    /\ UNCHANGED SessionFrame

\* getSelectorImmediate: the loop returns h when isTrulyVisible(h) is not null.
LoopReturns(checks, nm, visible) == visible

\* isTrulyVisible(h) settles for the next handle.
VisibleDone(j) ==
    /\ sess[j].pc = "immVis"
    /\ \E res \in {"visible", "hidden", "error"} :
        LET s == [sess[j] EXCEPT !.checks = Append(@, res = "visible")] IN
        CASE res = "error" -> Throw(j)
          [] res # "error" /\ LoopReturns(sess[j].checks, sess[j].nm, res = "visible") ->
                Apply(j, VisibleImmediateReturns(X(s, activePageMutex), j, TRUE))
          [] OTHER ->
                IF Len(s.checks) = s.nm
                THEN Apply(j, VisibleImmediateReturns(X(s, activePageMutex), j, FALSE))
                ELSE Apply(j, X(s, activePageMutex))
    /\ UNCHANGED SessionFrame

\* Jobs whose execution functions call waitForSelector with options.visible;
\* close() is not called.
NextVisible ==
    \/ \E j \in Jobs : GetPage(j)
    \/ \E j \in Jobs : CreateEnter(j)
    \/ \E j \in Jobs : LaunchDone(j)
    \/ \E j \in Jobs : PagesDone(j)
    \/ \E j \in Jobs : ViewportDone(j)
    \/ \E j \in Jobs : AfterCreate(j)
    \/ \E j \in Jobs : NewPageDone(j)
    \/ \E j \in Jobs : StartTry(j)
    \/ \E j \in Jobs : GotoDone(j)
    \/ \E j \in Jobs : Finally(j)
    \/ \E j \in Jobs : AcquireResume(j)
    \/ \E j \in Jobs : FrontDone(j)
    \/ \E j \in Jobs : UserReturn(j)
    \/ \E j \in Jobs : UserThrow(j)
    \/ \E j \in Jobs : Unwind(j)
    \/ \E j \in Jobs : TimerDone(j)
    \/ \E j \in Jobs : NativeDone(j)
    \/ \E j \in Jobs : WaitForSelectorVisible(j)
    \/ \E j \in Jobs : QueryAllDone(j)
    \/ \E j \in Jobs : VisibleDone(j)

SpecVisible == Init /\ [][NextVisible]_vars

\* The session is in waitForSelector with options.visible.
InVisibleWait(s) == \E i \in 1..Len(s.frames) : s.frames[i].fn = "wfs.visible"
InVisibleQuery(s) == s.pc \in {"immAll", "immVis"} \/ InVisibleWait(s)

\* C24: with visible requested, getSelectorImmediate checks the handles in
\* driver order and returns the first one for which isTrulyVisible passes, or
\* none after all of them failed; waitForSelector returns an element only
\* from such a query, as the handle whose check passed last; after a native
\* wait that gave an element it runs the query again and returns its result.
VisibleFiltering_C24 ==
    /\ [](\A j \in Jobs :
            /\ Len(sess[j].checks) <= sess[j].nm
            /\ \A i \in 1..(Len(sess[j].checks) - 1) : ~sess[j].checks[i])
    /\ [][\A j \in Jobs :
            /\ (sess[j].pc = "immVis" /\ sess'[j] # sess[j] /\ sess'[j].pc # "throw") =>
                 /\ sess'[j].checks # <<>>
                 /\ Last(sess'[j].checks) => (sess'[j].pc = "run" /\ sess'[j].ret = "el")
                 /\ (~Last(sess'[j].checks) /\ Len(sess'[j].checks) < sess[j].nm)
                        => sess'[j].pc = "immVis"
                 /\ (~Last(sess'[j].checks) /\ Len(sess'[j].checks) = sess[j].nm)
                        => (sess'[j].pc # "immVis" /\ sess'[j].ret # "el")
            /\ (InVisibleQuery(sess[j]) /\ sess'[j].pc = "run" /\ sess'[j] # sess[j]) =>
                 /\ sess'[j].ret \in {"el", "none"}
                 /\ sess'[j].ret = "el" =>
                        (sess[j].pc = "immVis" /\ sess'[j].checks # <<>> /\ Last(sess'[j].checks))
                 /\ sess[j].arg = "recheck" =>
                        (sess'[j].ret = "none" <=>
                            \A i \in 1..Len(sess'[j].checks) : ~sess'[j].checks[i])
            /\ (InVisibleWait(sess[j]) /\ ~InVisibleWait(sess'[j]) /\ sess[j].ret = "el"
                /\ sess[j].pc # "throw" /\ sess'[j].pc # "throw") =>
                 (sess'[j].pc = "immAll" /\ sess'[j].arg = "recheck")
       ]_vars

\* C24 witness: after a native wait gave an element, the
\* query was run again, its first handle was not truly visible, its second
\* was, and waitForSelector has returned that one.
Witness_C24 ==
    \E j \in Jobs :
        /\ sess[j].pc = "run" /\ sess[j].ret = "el" /\ sess[j].arg = "recheck"
        /\ sess[j].checks = <<FALSE, TRUE>> /\ sess[j].nm = 2

\* The keyboard calls of typeInElement a session can be awaiting, and the
\* step in which typeInElement is done with the keyboard without an error.
KbPcs == {"kbStart", "kbType", "kbShiftDown", "kbShiftEnter", "kbShiftUp", "kbEnter"}
TypingEnds(j) ==
    sess[j].pc \in KbPcs /\ sess'[j].pc \notin KbPcs /\ sess'[j].pc # "throw"

\* What the claim has typeInElement send in multi-line mode for these lines:
\* every line that is not empty once trimmed, and a soft line break between
\* consecutive lines.
RECURSIVE SoftBrokenLines(_)
SoftBrokenLines(ls) ==
    IF ls = <<>> THEN <<>>
    ELSE (IF TrimEnd(Head(ls)) # "" THEN <<TrimEnd(Head(ls))>> ELSE <<>>)
         \o (IF Len(ls) > 1 THEN <<ShiftEnter>> ELSE <<>>)
         \o SoftBrokenLines(Tail(ls))

\* C25: when typeInElement is done with the keyboard it has sent, in
\* multi-line mode, the trimmed non-empty lines of the text in order with one
\* Shift+Enter between consecutive lines and none after the last, otherwise
\* the whole text at once; and then Enter exactly when pressReturnAtEnd is set.
TypedKeys_C25 ==
    [][\A j \in Jobs :
        TypingEnds(j) =>
            LET multi == sess[j].arg \in {"multi", "multi.ret"}
                ret == sess[j].arg \in {"single.ret", "multi.ret"}
            IN  sess[j].keys =
                    (IF multi THEN SoftBrokenLines(sess[j].lines) ELSE <<Join(sess[j].lines)>>)
                    \o (IF ret THEN <<Enter>> ELSE <<>>)
    ]_vars

(* ------------------ PuppyteerPage: getFirstVisibleElement -------------- *)
\* Rectangles are the top and left of getBoundingClientRect(), in tenths of
\* a pixel; NoRect is the null of isTrulyVisible.  rects holds what
\* isTrulyVisible gave for each handle of page.$$, in driver order; hit is
\* the handle returned (0 for null).
NoRect == [top |-> -1, left |-> -1]
Rects == [top : {100, 101}, left : {0, 11000}]

\* The array els: one entry per truly visible handle, k its place in the
\* sources and idx its place in els.
RECURSIVE VisibleEls(_, _)
VisibleEls(rects, k) ==
    IF k > Len(rects) THEN <<>>
    ELSE LET rest == VisibleEls(rects, k + 1) IN
         IF rects[k] = NoRect THEN rest
         ELSE <<[k |-> k, rect |-> rects[k]]>> \o rest

\* The comparator given to els.sort, times ten: idx is the variable of the
\* method, which counts the entries of els when the sort runs.
Comparator(a, b, idx) ==
    (a.rect.top - b.rect.top) * 1000000 + (a.rect.left - b.rect.left) * 100 + idx * 10

\* A comparator is consistent on an array when it is antisymmetric in sign
\* and transitive on its elements (no element is compared with itself).
ConsistentOn(els, idx) ==
    /\ \A i, k \in 1..Len(els) : i # k =>
          /\ (Comparator(els[i], els[k], idx) > 0) <=> (Comparator(els[k], els[i], idx) < 0)
          /\ (Comparator(els[i], els[k], idx) = 0) <=> (Comparator(els[k], els[i], idx) = 0)
    /\ \A i, k, l \in 1..Len(els) :
          (/\ i # k /\ k # l /\ i # l
           /\ Comparator(els[i], els[k], idx) <= 0 /\ Comparator(els[k], els[l], idx) <= 0)
             => Comparator(els[i], els[l], idx) <= 0

\* Array.prototype.sort: the arrays it can leave.  With a consistent
\* comparator it is the stable sort; otherwise the order is
\* implementation-defined.
Rearrangements(els) ==
    {p \in [1..Len(els) -> Range(els)] : \A i \in 1..Len(els) : \E k \in 1..Len(els) : p[k] = els[i]}
SortOutcomes(els, idx) ==
    {p \in Rearrangements(els) :
        ConsistentOn(els, idx) =>
            \A i, k \in 1..Len(p) : i < k =>
                \/ Comparator(p[i], p[k], idx) < 0
                \/ Comparator(p[i], p[k], idx) = 0 /\ p[i].k < p[k].k}

\* getFirstVisibleElement(selector) up to its first await: page.$$
GetFirstVisibleElement(j) ==
    /\ CanCall(j)
    /\ Apply(j, X([Called(j).s EXCEPT !.pc = "fveAll", !.nm = 0, !.rects = <<>>, !.hit = 0],
                  activePageMutex))
    /\ UNCHANGED SessionFrame

\* page.$$ settles; isTrulyVisible is called on every handle.
FveQueryDone(j) ==
    /\ sess[j].pc = "fveAll"
    /\ \E ok \in BOOLEAN, n \in 0..MaxMatches :
        IF ok THEN Apply(j, X([sess[j] EXCEPT !.pc = "fveVis", !.nm = n], activePageMutex))
        ELSE n = 0 /\ Throw(j)
    /\ UNCHANGED SessionFrame

\* Promise.all of the isTrulyVisible calls settles: els is filled, sorted
\* and its first element returned, or null when it is empty.
FveVisibleDone(j) ==
    /\ sess[j].pc = "fveVis"
    /\ \E ok \in BOOLEAN, rects \in [1..sess[j].nm -> Rects \cup {NoRect}] :
        LET els == VisibleEls(rects, 1)
            s == [sess[j] EXCEPT !.rects = rects]
        IN  IF ~ok THEN (\A k \in 1..sess[j].nm : rects[k] = NoRect) /\ Throw(j)
            ELSE IF els = <<>>
                 THEN Apply(j, Resume(X([s EXCEPT !.ret = "none", !.hit = 0], activePageMutex), j))
                 ELSE \E sorted \in SortOutcomes(els, Len(els)) :
                        Apply(j, Resume(X([s EXCEPT !.ret = "el", !.hit = sorted[1].k],
                                          activePageMutex), j))
    /\ UNCHANGED SessionFrame

\* Jobs whose execution functions call getFirstVisibleElement; close() is
\* not called.
NextFirstVisible ==
    \/ \E j \in Jobs : GetPage(j)
    \/ \E j \in Jobs : CreateEnter(j)
    \/ \E j \in Jobs : LaunchDone(j)
    \/ \E j \in Jobs : PagesDone(j)
    \/ \E j \in Jobs : ViewportDone(j)
    \/ \E j \in Jobs : AfterCreate(j)
    \/ \E j \in Jobs : NewPageDone(j)
    \/ \E j \in Jobs : StartTry(j)
    \/ \E j \in Jobs : GotoDone(j)
    \/ \E j \in Jobs : Finally(j)
    \/ \E j \in Jobs : AcquireResume(j)
    \/ \E j \in Jobs : FrontDone(j)
    \/ \E j \in Jobs : UserReturn(j)
    \/ \E j \in Jobs : UserThrow(j)
    \/ \E j \in Jobs : Unwind(j)
    \/ \E j \in Jobs : TimerDone(j)
    \/ \E j \in Jobs : GetFirstVisibleElement(j)
    \/ \E j \in Jobs : FveQueryDone(j)
    \/ \E j \in Jobs : FveVisibleDone(j)

SpecFirstVisible == Init /\ [][NextFirstVisible]_vars

\* Handle i comes before handle k in the order the claim gives: smaller top,
\* then smaller left, then earlier in driver order.
Before(rects, i, k) ==
    \/ rects[i].top < rects[k].top
    \/ rects[i].top = rects[k].top /\ rects[i].left < rects[k].left
    \/ rects[i] = rects[k] /\ i <= k

\* C26: getFirstVisibleElement returns none when no match is truly visible,
\* otherwise the truly visible match that is first by top, then left, then
\* driver order; and the comparator it sorts with never says of two elements
\* both that the first comes after the second and the second after the first.
FirstVisibleOrder_C26 ==
    [][\A j \in Jobs :
        (sess[j].pc = "fveVis" /\ sess'[j].pc = "run") =>
            LET rects == sess'[j].rects
                vis == {k \in 1..Len(rects) : rects[k] # NoRect}
                els == VisibleEls(rects, 1)
            IN  /\ (sess'[j].ret = "none") <=> (vis = {})
                /\ vis # {} =>
                     /\ sess'[j].hit \in vis
                     /\ \A k \in vis : Before(rects, sess'[j].hit, k)
                /\ \A a, b \in 1..Len(els) :
                     ~(/\ a # b
                       /\ Comparator(els[a], els[b], Len(els)) > 0
                       /\ Comparator(els[b], els[a], Len(els)) > 0)
    ]_vars

(* ---------------------- PuppyteerPage: isTrulyVisible ------------------ *)
\* What isTrulyVisible reads of the document, in dom: el (the handle is not
\* null), box (the element's getBoundingClientRect), hit (what
\* document.elementFromPoint gives at the centre of box, as it stands to the
\* element) and chain (the computed styles of the element and of its
\* ancestors up to the root, the element first).  getComputedStyle gives
\* lengths as pixels: a width of zero reads "0px".
Boxes == [top : {-1, 0, 95}, left : {-1, 0, 95}, width : {0, 10}, height : {0, 10}]
Hits == {"self", "descendant", "ancestor", "other", "none"}
Styles == [display : {"block", "none"}, visibility : {"visible", "hidden"},
           opacity : {"1", "0"}, width : {"10px", "0px"}, height : {"10px", "0px"}]
Chains == UNION {[1..n -> Styles] : n \in 1..(MaxAncestors + 1)}

\* The documents a browser can show: an element without a box (display none
\* on it or on an ancestor) has an empty rectangle, and the element's own
\* computed width and height are those of its rectangle.
Doms ==
    {d \in [el : {TRUE}, box : Boxes, hit : Hits, chain : Chains] :
        /\ (\E i \in 1..Len(d.chain) : d.chain[i].display = "none")
              => (d.box.width = 0 /\ d.box.height = 0)
        /\ (d.chain[1].width = "0px") <=> (d.box.width = 0)
        /\ (d.chain[1].height = "0px") <=> (d.box.height = 0)}

\* isTrulyVisible: the rectangle test
OffScreen(box) ==
    \/ box.top < 0 \/ box.left < 0 \/ box.width < 1 \/ box.height < 1
    \/ box.top + box.height > View.innerHeight
    \/ box.left + box.width > View.innerWidth

\* isTrulyVisible: the walk from the element at the centre up its parents
\* comes to the element.
WalkFinds(hit) == hit \in {"self", "descendant"}

\* isTrulyVisible: the test made on the computed style of each element of
\* the chain
StyleHides(style) ==
    \/ style.display = "none" \/ style.visibility = "hidden" \/ style.opacity = "0"
    \/ style.width = "0" \/ style.height = "0"

\* The function evaluated in the page: "rect" for the rectangle, "none" for null
TrulyVisible(d) ==
    IF OffScreen(d.box) THEN "none"
    ELSE IF ~WalkFinds(d.hit) THEN "none"
    ELSE IF \E i \in 1..Len(d.chain) : StyleHides(d.chain[i]) THEN "none"
    ELSE "rect"

\* isTrulyVisible(el) up to its await; for a null handle it returns null.
IsTrulyVisible(j) ==
    /\ sess[j].pc = "idle" /\ sess[j].ops < MaxOps
    /\ \/ SetSess(j, [sess[j] EXCEPT !.ops = @ + 1, !.ret = "none", !.dom = NewSession.dom])
       \/ \E d \in Doms : SetSess(j, [sess[j] EXCEPT !.ops = @ + 1, !.pc = "vis", !.ret = "",
                                                      !.dom = d])
    /\ UNCHANGED StatusFrame

\* el.evaluate settles.
IsTrulyVisibleDone(j) ==
    /\ sess[j].pc = "vis"
    /\ \E ok \in BOOLEAN :
        SetSess(j, [sess[j] EXCEPT !.pc = "idle",
                                   !.ret = IF ok THEN TrulyVisible(sess[j].dom) ELSE "error"])
    /\ UNCHANGED StatusFrame

\* isTrulyVisible is called on one session, for every document.
NextTrulyVisible ==
    \/ \E j \in StatusJobs : IsTrulyVisible(j)
    \/ \E j \in StatusJobs : IsTrulyVisibleDone(j)

SpecTrulyVisible == Init /\ [][NextTrulyVisible]_vars

\* C27: isTrulyVisible returns the rectangle only if the element is there,
\* its rectangle lies inside the viewport with width and height of at least
\* 1, the element at its centre is the element or a descendant of it, and no
\* element of the chain has display none, visibility hidden, opacity zero or
\* a width or height of zero; so it returns none below an ancestor with
\* display none, and none for an absent element.
TrulyVisibleOnlyIf_C27 ==
    \A j \in Jobs :
        LET d == sess[j].dom IN
        /\ sess[j].ret = "rect" =>
            /\ d.el
            /\ d.box.top >= 0 /\ d.box.left >= 0
            /\ d.box.top + d.box.height <= View.innerHeight
            /\ d.box.left + d.box.width <= View.innerWidth
            /\ d.box.width >= 1 /\ d.box.height >= 1
            /\ d.hit \in {"self", "descendant"}
            /\ \A i \in 1..Len(d.chain) :
                 /\ d.chain[i].display # "none" /\ d.chain[i].visibility # "hidden"
                 /\ d.chain[i].opacity # "0"
                 /\ d.chain[i].width # "0px" /\ d.chain[i].height # "0px"
        /\ (sess[j].pc = "idle" /\ ~d.el) => sess[j].ret \in {"", "none"}

(* --------------------------- scrollToElement --------------------------- *)
\* scrollToElement(el) called by the execution function itself, up to its
\* first await: getElementCenter(el, false).
ScrollToElement(j) ==
    /\ CanAct(j)
    /\ Apply(j, X([Acting(j) EXCEPT !.pc = "scrCenter", !.pt = NoPt, !.at = NoPt],
                  activePageMutex))
    /\ UNCHANGED SessionFrame

\* Jobs whose execution functions call scrollToElement; the layout changes
\* at most MaxScrolls times during a call.
NextScroll ==
    \/ \E j \in Jobs : GetPage(j)
    \/ \E j \in Jobs : CreateEnter(j)
    \/ \E j \in Jobs : LaunchDone(j)
    \/ \E j \in Jobs : PagesDone(j)
    \/ \E j \in Jobs : ViewportDone(j)
    \/ \E j \in Jobs : AfterCreate(j)
    \/ \E j \in Jobs : NewPageDone(j)
    \/ \E j \in Jobs : StartTry(j)
    \/ \E j \in Jobs : GotoDone(j)
    \/ \E j \in Jobs : Finally(j)
    \/ \E j \in Jobs : AcquireResume(j)
    \/ \E j \in Jobs : FrontDone(j)
    \/ \E j \in Jobs : UserReturn(j)
    \/ \E j \in Jobs : UserThrow(j)
    \/ \E j \in Jobs : Unwind(j)
    \/ \E j \in Jobs : ScrollToElement(j)
    \/ \E j \in Jobs : ScrollCenterDone(j)
    \/ \E j \in Jobs : ScrollEvalDone(j)
    \/ \E j \in Jobs : TimerDone(j)
    \/ \E j \in Jobs : ScrollCenter2Done(j)

\* The driver settles every call of scrollToElement and timers fire.
SpecScroll ==
    /\ Init
    /\ [][NextScroll]_vars
    /\ \A j \in Jobs : /\ WF_vars(ScrollCenterDone(j))
                       /\ WF_vars(ScrollEvalDone(j))
                       /\ WF_vars(TimerDone(j))
                       /\ WF_vars(ScrollCenter2Done(j))

\* The session is inside a scrollToElement call.
InScroll(s) == s.pc \in {"scrCenter", "scrEval", "scrCenter2"}
               \/ (s.pc = "timer" /\ InOp(s, "scroll"))

\* C28: scrollToElement returns exactly when the centre read after a scroll
\* attempt and its settling wait equals the one read before it, and returns
\* that last read; otherwise it scrolls to the new centre.  It returns only
\* from such a second read, which only follows the settling wait, which only
\* follows a scroll attempt.  A scroll attempt moves the element in the view
\* only when the shift to the middle of the view is more than 10 pixels on
\* some axis.  Once the layout has stopped changing, the call ends.
ScrollToElement_C28 ==
    /\ [][\A j \in Jobs :
            /\ (sess[j].pc = "scrCenter2" /\ sess'[j].pc \notin {"scrCenter2", "throw"}) =>
                 IF sess[j].at = sess[j].pt
                 THEN sess'[j].pc = "run" /\ sess'[j].pt = sess[j].at
                 ELSE sess'[j].pc = "scrEval" /\ sess'[j].pt = sess[j].at
            /\ (InScroll(sess[j]) /\ sess'[j].pc = "run") => sess[j].pc = "scrCenter2"
            /\ (sess[j].pc # "scrCenter2" /\ sess'[j].pc = "scrCenter2") =>
                 (sess[j].pc = "timer" /\ InOp(sess[j], "scroll"))
            /\ (~InOp(sess[j], "scroll") /\ InOp(sess'[j], "scroll")) => sess[j].pc = "scrEval"
            /\ (sess[j].pc = "scrEval" /\ sess'[j].pc # "throw" /\ sess'[j].at # sess[j].at) =>
                 (\/ sess[j].pt.x - View.innerWidth \div 2 > 10
                  \/ View.innerWidth \div 2 - sess[j].pt.x > 10
                  \/ sess[j].pt.y - View.innerHeight \div 2 > 10
                  \/ View.innerHeight \div 2 - sess[j].pt.y > 10)
      ]_vars
    /\ \A j \in Jobs : InScroll(sess[j]) ~> ~InScroll(sess[j])

\* A scrollToElement call has returned the middle of the view after the
\* layout changed under it.
Witness_C28 ==
    \E j \in Jobs : /\ sess[j].pc = "run" /\ sess[j].acts = 1
                    /\ sess[j].scrolls >= 1
                    /\ sess[j].pt = [x |-> 50, y |-> 50]

(* ------------------------- status stack balance ------------------------ *)
\* The i-th entry of the status stack was pushed with msg.
PushedWith(s, i, msg) ==
    s.statusStack[i] = (IF i = 1 \/ s.statusStack[i - 1] = "" THEN msg
                        ELSE s.statusStack[i - 1] \o " -- " \o msg)

\* The execution function has made a call of a session operation and none
\* is under way: the function runs again, or an error has come out of the
\* operation (the innermost call still open is a runInForeground or
\* runInBackground of the job's).
AfterOperation(s) ==
    /\ s.ops + s.acts > 0
    /\ \/ s.pc = "run"
       \/ s.pc = "throw" /\ s.frames # <<>> /\ TopFrame(s).fn \in {"user", "exec"}

\* C29: status stack balance: when a session operation has ended, also with
\* an error, the status stack is as deep as it was when the operation was
\* called; and the 'Waiting for active page' entry is the top of the stack
\* exactly while the session waits for the mutex.
StatusBalance_C29 ==
    \A j \in Jobs :
        /\ AfterOperation(sess[j]) => Len(sess[j].statusStack) = sess[j].depth
        /\ sess[j].pc = "acquire" =>
             /\ sess[j].statusStack # <<>>
             /\ PushedWith(sess[j], Len(sess[j].statusStack), AcquireMsg)
        /\ sess[j].pc # "acquire" =>
             \A i \in 1..Len(sess[j].statusStack) : ~PushedWith(sess[j], i, AcquireMsg)

(* ----------------------- release only by the holder -------------------- *)
\* The step is one in which session j calls releaseActivePage(): the finally
\* of a runInForeground that acquired is run (its frame goes), or a
\* runInBackground that found the session in the foreground starts.
CallsRelease(j) ==
    \/ /\ Len(sess'[j].frames) < Len(sess[j].frames)
       /\ \E i \in (Len(sess'[j].frames) + 1)..Len(sess[j].frames) :
            sess[j].frames[i].k = "FG" /\ sess[j].frames[i].rel
    \/ /\ Len(sess'[j].frames) > Len(sess[j].frames)
       /\ \E i \in (Len(sess[j].frames) + 1)..Len(sess'[j].frames) :
            sess'[j].frames[i].k = "BG" /\ sess'[j].frames[i].rel

\* C30: release only by the holder: whenever a session calls release on the
\* active-page mutex, the mutex is held by that session (so each release
\* ends an acquisition of the same session's, and the two alternate).
ReleaseByHolder_C30 ==
    [][\A j \in Jobs : CallsRelease(j) => activePageMutex.holder = j]_vars

(* --------------------- no tab of a dead browser ------------------------ *)
\* C31: no tab of a dead browser is handed out: a tab that getPage returns
\* belongs to the browser recorded at that moment, which has not been
\* closed; and the pool never keeps a tab of a browser that has been closed.
NoDeadBrowserTab_C31 ==
    /\ [][\A j \in Jobs :
            (sess[j].pc # "gotPage" /\ sess'[j].pc = "gotPage") =>
                /\ browser' # None
                /\ sess'[j].tab.b = browser'
                /\ browser' \notin driver'.closed
       ]_vars
    /\ [](\A i \in 1..Len(availablePages) : availablePages[i].b \notin driver.closed)

====
